---- MODULE Spec2Model ----
(***************************************************************************)
(* Quadrant planner server: the tasks service (api/tasks/service.py) over  *)
(* the hosted store, as a state machine.  The store is the two tables the  *)
(* service reads and writes (tasks, subtasks) plus the goals table it      *)
(* consults; every handler runs to completion as one step (one request at  *)
(* a time, no store failure), except where a specification says otherwise: *)
(* SpecFail lets store calls raise, SpecRace runs two requests store call  *)
(* by store call.                                                          *)
(*                                                                         *)
(* Timestamps are abstracted to NULL (SQL null) or TS (a value written by  *)
(* datetime.utcnow()); created_at and updated_at are not modelled.         *)
(***************************************************************************)
EXTENDS Integers, Sequences, FiniteSets, TLC

VARIABLES tasks, subtasks, goals, nextId, last, retry, budget, inflight

vars == <<tasks, subtasks, goals, nextId, last, retry, budget, inflight>>

NULL == "null"
TS == "ts"

\* ---------------------------------------------------------------- bounds
MaxTasks == 2
MaxPos == 1
MaxOps == 3
CapOps == 3
CeilOps == 2
MaxRows == 3
MaxGapPos == 3
GoalOps == 2
FailOps == 2
UserOps == 2
MaxOffset == 3
RaceOps == 1

\* ------------------------------------------------------- program constants
StagingCap == 5
MaxUserTasks == 1000
MaxActiveGoals == 100
DefaultLimit == 50
MaxLimit == 200

Users == {"u1", "u2"}
TaskQuadrant == {"Q1", "Q2", "Q3", "Q4", "staging"}
GoalIds == {"g1", "g2"}

\* ------------------------------------------------------------ store reads
\* faulty variant: a lookup by id alone
OwnedByAnyone(T, t, u) == t \in DOMAIN T

\* .eq("id", task_id).eq("user_id", user_id): the row exists and is the caller's
Owned(T, t, u) == t \in DOMAIN T /\ T[t].user_id = u

\* .eq("user_id", user_id).eq("quadrant", quadrant): one (user, quadrant) partition
Partition(T, u, q) == {t \in DOMAIN T : T[t].user_id = u /\ T[t].quadrant = q}

_count_user_tasks(T, u) == Cardinality({t \in DOMAIN T : T[t].user_id = u})

\* faulty variant: the count without .eq("completed", False)
CountStagingRowsOfAnyCompletion(T, u) ==
    Cardinality({t \in DOMAIN T : T[t].user_id = u /\ T[t].quadrant = "staging"})

\* faulty variant: the count without .eq("user_id", user_id)
CountStagingOfAllUsers(T, u) ==
    Cardinality({t \in DOMAIN T : T[t].quadrant = "staging" /\ T[t].completed = FALSE})

_count_staging_tasks(T, u) ==
    Cardinality({t \in DOMAIN T : /\ T[t].user_id = u
                                  /\ T[t].quadrant = "staging"
                                  /\ T[t].completed = FALSE})

\* faulty variant: the task ceiling compared with > for >=
TaskCeilingReachedAbove(existing_count) == existing_count > MaxUserTasks

\* if existing_count >= 1000: raise ConflictError("Maximum of 1000 tasks ...")
TaskCeilingReached(existing_count) == existing_count >= MaxUserTasks

\* faulty variant: the cap compared with > for >=
StagingZoneFullAboveCap(staging_count) == staging_count > StagingCap

\* if staging_count >= 5: raise ConflictError("Staging zone is full ...")
StagingZoneFull(staging_count) == staging_count >= StagingCap

\* faulty variant: move_task counting whenever the target is staging
MoveChecksCapacityForAnySource(source_quadrant, target_quadrant) ==
    target_quadrant = "staging"

\* move_task: if target_quadrant == "staging" and source_quadrant != "staging"
MoveChecksCapacity(source_quadrant, target_quadrant) ==
    target_quadrant = "staging" /\ source_quadrant # "staging"

\* faulty variant: update_task never counting
UpdateNeverChecksCapacity(sent, new_quadrant, old_quadrant) == FALSE

\* update_task: if "quadrant" in update_data, and
\* if new_quadrant == "staging" and old_quadrant != "staging"
UpdateChecksCapacity(sent, new_quadrant, old_quadrant) ==
    "quadrant" \in sent /\ new_quadrant = "staging" /\ old_quadrant # "staging"

SetMax(S) == CHOOSE m \in S : \A x \in S : x <= m

\* faulty variant: the next position after the non-completed rows only
NextPositionAmongActive(T, u, q) ==
    IF {t \in Partition(T, u, q) : ~T[t].completed} = {} THEN 0
    ELSE SetMax({T[t].position : t \in {x \in Partition(T, u, q) : ~T[x].completed}}) + 1

_get_next_position(T, u, q) ==
    IF Partition(T, u, q) = {} THEN 0
    ELSE SetMax({T[t].position : t \in Partition(T, u, q)}) + 1

\* select id from goals where id = goal_id and user_id = user_id
_validate_goal_ownership(G, g, u) == g \in DOMAIN G /\ G[g].user_id = u

\* ------------------------------------------------------ position manager
\* faulty variant: the rows of a partition in any order: the select without .order
RECURSIVE InAnyOrder(_, _)
InAnyOrder(T, S) ==
    IF S = {} THEN {<< >>}
    ELSE UNION {{<<m>> \o s : s \in InAnyOrder(T, S \ {m})} : m \in S}

\* The rows of a partition in the order .order("position") may return them:
\* ascending by position, rows of equal position in any order.
RECURSIVE OrderedBy(_, _)
OrderedBy(T, S) ==
    IF S = {} THEN {<< >>}
    ELSE UNION {{<<m>> \o s : s \in OrderedBy(T, S \ {m})} :
                m \in {x \in S : \A y \in S : T[x].position <= T[y].position}}

\* index (0-based) of row t in the result list
IndexOf(seq, t) == (CHOOSE i \in 1..Len(seq) : seq[i] = t) - 1

\* faulty variant: a compaction that writes nothing
CompactionSkipped(T, u, q, rows) == T

\* faulty variant: a compaction that gives each row the number of rows
\* placed before it, so that rows sharing a position go on sharing one
CompactionKeepingTies(T, u, q, rows) ==
    [t \in DOMAIN T |->
        IF T[t].user_id = u /\ T[t].quadrant = q
        THEN [T[t] EXCEPT !.position =
                 Cardinality({s \in Partition(T, u, q) : T[s].position < T[t].position})]
        ELSE T[t]]

_compact_positions_in_quadrant(T, u, q, rows) ==
    [t \in DOMAIN T |->
        IF T[t].user_id = u /\ T[t].quadrant = q
        THEN [T[t] EXCEPT !.position = IndexOf(rows, t)]
        ELSE T[t]]

\* faulty variant: the shift of the rows after new_position only
ReorderShiftingAbove(T, u, q, moved, new_position) ==
    [t \in DOMAIN T |->
        IF /\ T[t].user_id = u
           /\ T[t].quadrant = q
           /\ t # moved
           /\ T[t].position > new_position
        THEN [T[t] EXCEPT !.position = T[t].position + 1]
        ELSE T[t]]

\* faulty variant: a reorder that writes nothing
ReorderSkipped(T, u, q, moved, new_position) == T

_reorder_tasks_in_quadrant(T, u, q, moved, new_position) ==
    [t \in DOMAIN T |->
        IF /\ T[t].user_id = u
           /\ T[t].quadrant = q
           /\ t # moved
           /\ T[t].position >= new_position
        THEN [T[t] EXCEPT !.position = T[t].position + 1]
        ELSE T[t]]

\* ------------------------------------------------------------- handlers
\* A handler's outcome: the store after it and what the caller gets.
Outcome(T, S, r) == [tasks |-> T, subtasks |-> S, result |-> r]

OK == "ok"
StagingFull == "ConflictError: Staging zone is full (maximum 5 items)"
TooManyTasks == "ConflictError: Maximum of 1000 tasks allowed per user"
TaskNotFound == "NotFoundError: Task"
GoalNotFound == "NotFoundError: Goal"
CreateFailed == "DatabaseError: Failed to create task"
TooManyGoals == "ConflictError: Maximum of 100 active goals allowed per user"
LimitInvalid == "ValidationError: Limit must be an integer between 1 and 200"
OffsetInvalid == "ValidationError: Offset must be a non-negative integer"

\* the HTTP status of what the caller gets
status_code(result) ==
    CASE result = OK -> 200
      [] result \in {LimitInvalid, OffsetInvalid} -> 400
      [] result \in {TaskNotFound, GoalNotFound} -> 404
      [] result \in {StagingFull, TooManyTasks, TooManyGoals} -> 409
      [] OTHER -> 500

\* _create_subtasks: one row per item, position = its index
SubtaskRows(t, n) == {[task_id |-> t, position |-> i] : i \in 0..(n - 1)}

\* create_task(task_data, user_id); id is the uuid the store gives the row,
\* g the goal_id (NULL: none), n the number of subtasks sent.
create_task(T, S, G, u, id, q, g, n) ==
    IF TaskCeilingReached(_count_user_tasks(T, u)) THEN Outcome(T, S, TooManyTasks)
    ELSE IF q = "staging" /\ StagingZoneFull(_count_staging_tasks(T, u))
    THEN Outcome(T, S, StagingFull)
    \* NotFoundError is not in "except (ConflictError, DatabaseError): raise"
    ELSE IF g # NULL /\ ~_validate_goal_ownership(G, g, u) THEN Outcome(T, S, CreateFailed)
    ELSE LET row == [user_id |-> u, goal_id |-> g, quadrant |-> q,
                     position |-> _get_next_position(T, u, q),
                     completed |-> FALSE,
                     is_staged |-> (q = "staging"),
                     staged_at |-> IF q = "staging" THEN TS ELSE NULL,
                     organized_at |-> NULL,
                     completed_at |-> NULL]
         IN Outcome([t \in DOMAIN T \cup {id} |-> IF t = id THEN row ELSE T[t]],
                    S \cup SubtaskRows(id, n), OK)

\* A TaskUpdate body.  sent names the fields the client sent: the keys of
\* update_data after "if v is not None"; a field not sent holds its filler.
NoPosition == -1
NoSubtasks == -1
TaskUpdate(sent, q, p, c, g, n) ==
    [sent |-> sent,
     quadrant |-> IF "quadrant" \in sent THEN q ELSE NULL,
     position |-> IF "position" \in sent THEN p ELSE NoPosition,
     completed |-> IF "completed" \in sent THEN c ELSE FALSE,
     goal_id |-> IF "goal_id" \in sent THEN g ELSE NULL,
     subtasks |-> IF "subtasks" \in sent THEN n ELSE NoSubtasks]

\* the staging fields update_task adds to update_data (lines 263-269)
UpdateStagingFields(row, new_quadrant) ==
    IF new_quadrant = "staging" /\ row.quadrant # "staging"
    THEN [row EXCEPT !.is_staged = TRUE, !.staged_at = TS]
    ELSE IF new_quadrant # "staging" /\ row.quadrant = "staging"
    THEN [row EXCEPT !.is_staged = FALSE, !.organized_at = TS]
    ELSE row

\* the completion fields update_task adds to update_data (lines 272-276)
UpdateCompletionFields(row, completed) ==
    IF completed /\ ~row.completed THEN [row EXCEPT !.completed_at = TS]
    ELSE IF ~completed /\ row.completed THEN [row EXCEPT !.completed_at = NULL]
    ELSE row

\* the row after .update(update_data) (line 289)
UpdatedRow(row, patch) ==
    LET r1 == IF "quadrant" \in patch.sent
              THEN [UpdateStagingFields(row, patch.quadrant) EXCEPT !.quadrant = patch.quadrant]
              ELSE row
        r2 == IF "completed" \in patch.sent
              THEN [UpdateCompletionFields(r1, patch.completed) EXCEPT !.completed = patch.completed]
              ELSE r1
        r3 == IF "position" \in patch.sent THEN [r2 EXCEPT !.position = patch.position] ELSE r2
    IN IF "goal_id" \in patch.sent THEN [r3 EXCEPT !.goal_id = patch.goal_id] ELSE r3

update_task(T, S, G, u, t, patch) ==
    IF ~Owned(T, t, u) THEN Outcome(T, S, TaskNotFound)
    ELSE IF "goal_id" \in patch.sent /\ ~_validate_goal_ownership(G, patch.goal_id, u)
    THEN Outcome(T, S, GoalNotFound)
    ELSE IF patch.sent = {} THEN Outcome(T, S, OK)
    ELSE IF /\ UpdateChecksCapacity(patch.sent, patch.quadrant, T[t].quadrant)
            /\ StagingZoneFull(_count_staging_tasks(T, u))
    THEN Outcome(T, S, StagingFull)
    ELSE Outcome([T EXCEPT ![t] = UpdatedRow(T[t], patch)],
                 IF "subtasks" \in patch.sent
                 THEN {s \in S : s.task_id # t} \cup SubtaskRows(t, patch.subtasks)
                 ELSE S,
                 OK)

delete_task(T, S, u, t) ==
    IF ~Owned(T, t, u) THEN Outcome(T, S, TaskNotFound)
    ELSE Outcome([x \in DOMAIN T \ {t} |-> T[x]], S, OK)

\* faulty variant: a toggle that writes completed = true whatever it found
ToggleAlwaysCompleting(T, S, u, t) ==
    IF ~Owned(T, t, u) THEN Outcome(T, S, TaskNotFound)
    ELSE Outcome([T EXCEPT ![t] = [@ EXCEPT !.completed = TRUE, !.completed_at = TS]], S, OK)

toggle_task_completion(T, S, u, t) ==
    IF ~Owned(T, t, u) THEN Outcome(T, S, TaskNotFound)
    ELSE Outcome([T EXCEPT ![t] = [@ EXCEPT !.completed = ~T[t].completed,
                                            !.completed_at = IF T[t].completed THEN NULL ELSE TS]],
                 S, OK)

\* faulty variant: the row written with the is_staged the client sent
MovedRowWithClientFlag(row, target_quadrant, position, is_staged) ==
    LET r == [row EXCEPT !.quadrant = target_quadrant, !.position = position,
                         !.is_staged = IF is_staged = NULL THEN @ ELSE is_staged = "true"]
    IN IF target_quadrant = "staging" /\ row.quadrant # "staging"
       THEN [r EXCEPT !.staged_at = TS, !.organized_at = NULL]
       ELSE IF target_quadrant # "staging" /\ row.quadrant = "staging"
       THEN [r EXCEPT !.organized_at = TS, !.staged_at = NULL]
       ELSE r

\* faulty variant: the row written with the stamp of the side it left kept
MovedRowKeepingOldStamp(row, target_quadrant, position, is_staged) ==
    LET r == [row EXCEPT !.quadrant = target_quadrant, !.position = position]
    IN IF target_quadrant = "staging" /\ row.quadrant # "staging"
       THEN [r EXCEPT !.is_staged = TRUE, !.staged_at = TS]
       ELSE IF target_quadrant # "staging" /\ row.quadrant = "staging"
       THEN [r EXCEPT !.is_staged = FALSE, !.organized_at = TS]
       ELSE r

\* the update_data move_task writes to the task's row (lines 415-430);
\* the is_staged a TaskMove carries is never read
MovedRow(row, target_quadrant, position, is_staged) ==
    LET r == [row EXCEPT !.quadrant = target_quadrant, !.position = position]
    IN IF target_quadrant = "staging" /\ row.quadrant # "staging"
       THEN [r EXCEPT !.is_staged = TRUE, !.staged_at = TS, !.organized_at = NULL]
       ELSE IF target_quadrant # "staging" /\ row.quadrant = "staging"
       THEN [r EXCEPT !.is_staged = FALSE, !.organized_at = TS, !.staged_at = NULL]
       ELSE r

\* the store after move_task's primary write (line 439)
AfterMoveWrite(T, t, q, p, is_staged) == [T EXCEPT ![t] = MovedRow(T[t], q, p, is_staged)]

\* move_task(task_id, move_data, user_id); rows is the list the compaction's
\* select of the source partition returns (read after the primary write)
move_task(T, S, u, t, q, p, is_staged, rows) ==
    IF ~Owned(T, t, u) THEN Outcome(T, S, TaskNotFound)
    ELSE IF /\ MoveChecksCapacity(T[t].quadrant, q)
            /\ StagingZoneFull(_count_staging_tasks(T, u))
    THEN Outcome(T, S, StagingFull)
    ELSE LET source_quadrant == T[t].quadrant
             T1 == AfterMoveWrite(T, t, q, p, is_staged)
             T2 == IF source_quadrant # q
                   THEN _compact_positions_in_quadrant(T1, u, source_quadrant, rows)
                   ELSE T1
         IN Outcome(_reorder_tasks_in_quadrant(T2, u, q, t, p), S, OK)

\* the lists the compaction inside move_task may read
MoveRows(T, u, t, q, p, is_staged) ==
    IF Owned(T, t, u) /\ T[t].quadrant # q
    THEN OrderedBy(AfterMoveWrite(T, t, q, p, is_staged),
                   Partition(AfterMoveWrite(T, t, q, p, is_staged), u, T[t].quadrant))
    ELSE {<< >>}

\* bulk_update_tasks (routes.py): each item becomes a TaskMove (quadrant
\* default "Q1", position default 0) handed to move_task; an item that fails
\* is logged and skipped.  The stores the loop may end in (one per choice of
\* the lists the compactions read).
RECURSIVE bulk_update_tasks(_, _, _, _)
bulk_update_tasks(T, S, u, updates) ==
    IF updates = << >> THEN {T}
    ELSE LET item == Head(updates)
         IN UNION {bulk_update_tasks(
                       move_task(T, S, u, item.task_id, item.quadrant, item.position,
                                 item.is_staged, rows).tasks,
                       S, u, Tail(updates)) :
                   rows \in MoveRows(T, u, item.task_id, item.quadrant, item.position,
                                     item.is_staged)}

\* get_task_by_id(task_id, user_id): a read
get_task_by_id(T, S, u, t) ==
    IF ~Owned(T, t, u) THEN Outcome(T, S, TaskNotFound) ELSE Outcome(T, S, OK)

\* ---------------------------------------------------------- goals service
\* A goals row: its owner, the archived flag and (of its other columns) the
\* title, "t0" as created and "t1" once an update has rewritten it.
\* A goals handler's outcome: the goals and tasks tables after it and what
\* the caller gets.
GoalOutcome(G, T, r) == [goals |-> G, tasks |-> T, result |-> r]

\* select count from goals where user_id = user_id and archived = false
_count_user_goals(G, u) ==
    Cardinality({g \in DOMAIN G : G[g].user_id = u /\ G[g].archived = FALSE})

\* select * from goals where id = goal_id and user_id = user_id
GoalOwned(G, g, u) == g \in DOMAIN G /\ G[g].user_id = u

\* if existing_count >= 100: raise ConflictError
GoalCeilingReached(existing_count) == existing_count >= MaxActiveGoals

\* create_goal(goal_data, user_id); g is the uuid the store gives the row
create_goal(G, T, u, g) ==
    IF GoalCeilingReached(_count_user_goals(G, u)) THEN GoalOutcome(G, T, TooManyGoals)
    ELSE GoalOutcome([x \in DOMAIN G \cup {g} |->
                         IF x = g THEN [user_id |-> u, archived |-> FALSE, title |-> "t0"]
                         ELSE G[x]],
                     T, OK)

get_goal_by_id(G, T, u, g) ==
    IF ~GoalOwned(G, g, u) THEN GoalOutcome(G, T, GoalNotFound) ELSE GoalOutcome(G, T, OK)

\* A GoalUpdate body: user_id is required, sent names the other fields that
\* are not None (title, archived).
GoalUpdate(user_id, sent, archived) ==
    [user_id |-> user_id, sent |-> sent, title |-> "t1", archived |-> archived]

\* update_goal(goal_id, goal_data), called by the route for caller (the user
\* of the bearer token), which the service is not given: the goal is looked
\* up and written for goal_data.user_id
update_goal(G, T, caller, g, goal_data) ==
    IF ~GoalOwned(G, g, goal_data.user_id) THEN GoalOutcome(G, T, GoalNotFound)
    ELSE IF goal_data.sent = {} THEN GoalOutcome(G, T, OK)
    ELSE GoalOutcome([G EXCEPT ![g] =
                         [@ EXCEPT !.title = IF "title" \in goal_data.sent
                                             THEN goal_data.title ELSE @,
                                   !.archived = IF "archived" \in goal_data.sent
                                                THEN goal_data.archived ELSE @]],
                     T, OK)

\* faulty variant: a clean-up that takes the goal reference off every task
GoalDeletionForAllTasks(T, g, u) ==
    [t \in DOMAIN T |-> [T[t] EXCEPT !.goal_id = NULL]]

\* update tasks set goal_id = null where goal_id = goal_id and user_id = user_id
_handle_goal_deletion(T, g, u) ==
    [t \in DOMAIN T |->
        IF T[t].goal_id = g /\ T[t].user_id = u THEN [T[t] EXCEPT !.goal_id = NULL]
        ELSE T[t]]

\* delete_goal(goal_id, user_id): archive, then clean up the tasks
delete_goal(G, T, u, g) ==
    IF ~GoalOwned(G, g, u) THEN GoalOutcome(G, T, GoalNotFound)
    ELSE GoalOutcome([G EXCEPT ![g].archived = TRUE], _handle_goal_deletion(T, g, u), OK)

\* ------------------------------------------- best-effort steps that fail
\* A store call of a best-effort step may raise: the step stops there, with
\* the rows it had handled written.  fail is NoFailure, or the number of rows
\* of the list the step handled before a call of it raised (0: the rpc, the
\* select or the first write raised).
NoFailure == -1
Handled(rows, fail) == IF fail = NoFailure THEN Len(rows) ELSE fail
FailurePoints(rows) == {NoFailure} \cup 0..(IF rows = << >> THEN 0 ELSE Len(rows) - 1)

\* faulty variant: a step's exception raised again as DatabaseError
MoveFailed == "DatabaseError: Failed to move task"
FailureRaised(failed, r) == IF failed # {} THEN MoveFailed ELSE r

\* except Exception as e: logger.warning(...)  "Don't raise here as the main
\* operation was successful": what the caller gets is what the handler was
\* going to return
FailureLogged(failed, r) == r

\* _compact_positions_in_quadrant stopped after k rows of the list it read
CompactUpTo(T, u, q, rows, k) ==
    [t \in DOMAIN T |->
        IF T[t].user_id = u /\ T[t].quadrant = q /\ IndexOf(rows, t) < k
        THEN [T[t] EXCEPT !.position = IndexOf(rows, t)]
        ELSE T[t]]

\* the rows _reorder_tasks_in_quadrant may read: the partition without the
\* moved task, .order("position")
ReorderRows(T, u, q, moved) == OrderedBy(T, Partition(T, u, q) \ {moved})

\* _reorder_tasks_in_quadrant stopped after k rows of the list it read
ReorderUpTo(T, u, q, moved, new_position, rows, k) ==
    [t \in DOMAIN T |->
        IF /\ T[t].user_id = u
           /\ T[t].quadrant = q
           /\ t # moved
           /\ T[t].position >= new_position
           /\ IndexOf(rows, t) < k
        THEN [T[t] EXCEPT !.position = T[t].position + 1]
        ELSE T[t]]

\* move_task reaches its primary write: the task is the caller's and the cap
\* does not reject the move (lines 405-413)
MoveWrites(T, u, t, q) ==
    /\ Owned(T, t, u)
    /\ ~(MoveChecksCapacity(T[t].quadrant, q) /\ StagingZoneFull(_count_staging_tasks(T, u)))

\* the store after move_task's primary write and its compaction of the source
\* quadrant, which read rows and stopped at cfail
AfterCompaction(T, u, t, q, p, is_staged, rows, cfail) ==
    IF T[t].quadrant # q
    THEN CompactUpTo(AfterMoveWrite(T, t, q, p, is_staged), u, T[t].quadrant, rows,
                     Handled(rows, cfail))
    ELSE AfterMoveWrite(T, t, q, p, is_staged)

\* the steps of a move_task(cfail, rfail) in which a store call raised
FailedSteps(T, t, q, cfail, rfail) ==
    (IF T[t].quadrant # q /\ cfail # NoFailure THEN {"compact"} ELSE {})
    \cup (IF rfail # NoFailure THEN {"reorder"} ELSE {})

\* move_task whose compaction read rows and stopped at cfail and whose shift
\* of the target quadrant read trows and stopped at rfail
move_task_failing(T, S, u, t, q, p, is_staged, rows, cfail, trows, rfail) ==
    IF ~MoveWrites(T, u, t, q) THEN move_task(T, S, u, t, q, p, is_staged, rows)
    ELSE Outcome(ReorderUpTo(AfterCompaction(T, u, t, q, p, is_staged, rows, cfail),
                             u, q, t, p, trows, Handled(trows, rfail)),
                 S, FailureLogged(FailedSteps(T, t, q, cfail, rfail), OK))

\* delete_goal whose clean-up of the tasks raised (failed) or not
delete_goal_failing(G, T, u, g, failed) ==
    IF ~GoalOwned(G, g, u) THEN GoalOutcome(G, T, GoalNotFound)
    ELSE GoalOutcome([G EXCEPT ![g].archived = TRUE],
                     IF failed THEN T ELSE _handle_goal_deletion(T, g, u),
                     OK)

\* ------------------------------------------------------ analytics service
\* The analytics service reads aggregates the store computes (views and
\* functions).  What a store call gives it is a record: Raises (the call
\* raised), NoRows (result.data is empty) or, of kind "row", the first row of
\* result.data, a numeric column of which may be NoValue (SQL null).  Scores
\* and percentages are whole numbers of 0..100 here.
\* What a handler gives: Reply(OK, report) or Reply(error, NULL).
Raises == [kind |-> "raises"]
NoRows == [kind |-> "no rows"]
NoValue == -1
Reply(result, report) == [result |-> result, report |-> report]

ScoreFailed == "DatabaseError: Failed to calculate productivity score"
DistributionFailed == "DatabaseError: Failed to retrieve quadrant distribution"
AnalysisFailed == "DatabaseError: Failed to retrieve quadrant analysis"
TrendsFailed == "DatabaseError: Failed to retrieve productivity trends"
VelocityFailed == "DatabaseError: Failed to retrieve completion velocity"
InsightsFailed == "DatabaseError: Failed to retrieve productivity insights"

\* data[...] or 0.0
OrZero(v) == IF v = NoValue THEN 0 ELSE v

\* recommendations.append(item) under a condition
AppendIf(seq, cond, item) == IF cond THEN Append(seq, item) ELSE seq

FirstGoalAdvice == "Create your first goal to start tracking productivity"

\* faulty variant: the score of a user without a score row, with no advice
ScoreWithoutRowNoAdvice ==
    [overall_score |-> 0, goal_completion_score |-> 0, task_completion_score |-> 0,
     quadrant_balance_score |-> 0, consistency_score |-> 0, staging_efficiency_score |-> 0,
     score_trend |-> "stable", recommendations |-> << >>]

\* the UserProductivityScore of the else branch: result.data is empty
ScoreWithoutRow ==
    [overall_score |-> 0, goal_completion_score |-> 0, task_completion_score |-> 0,
     quadrant_balance_score |-> 0, consistency_score |-> 0, staging_efficiency_score |-> 0,
     score_trend |-> "stable", recommendations |-> <<FirstGoalAdvice>>]

\* calculate_productivity_score(user_id); answer is what
\* rpc("calculate_productivity_score") gave
calculate_productivity_score(answer) ==
    IF answer = Raises THEN Reply(ScoreFailed, NULL)
    ELSE IF answer = NoRows THEN Reply(OK, ScoreWithoutRow)
    ELSE Reply(OK,
               [overall_score |-> OrZero(answer.overall_score),
                goal_completion_score |-> OrZero(answer.goal_completion_score),
                task_completion_score |-> OrZero(answer.task_completion_score),
                quadrant_balance_score |-> OrZero(answer.quadrant_balance_score),
                consistency_score |-> OrZero(answer.consistency_score),
                staging_efficiency_score |-> OrZero(answer.staging_efficiency_score),
                score_trend |-> IF answer.score_trend = NULL THEN "stable"
                                ELSE answer.score_trend,
                \* data["recommendations"] or []: null and [] both give []
                recommendations |-> answer.recommendations])

\* get_quadrant_distribution(user_id); answer is what the select on the
\* quadrant_distribution view gave (the counts are not modelled)
get_quadrant_distribution(answer) ==
    IF answer = Raises THEN Reply(DistributionFailed, NULL)
    ELSE IF answer = NoRows
    THEN Reply(OK, [q1_percentage |-> 0, q2_percentage |-> 0, q3_percentage |-> 0,
                    q4_percentage |-> 0, staging_percentage |-> 0])
    ELSE Reply(OK, [q1_percentage |-> OrZero(answer.q1_percentage),
                    q2_percentage |-> OrZero(answer.q2_percentage),
                    q3_percentage |-> OrZero(answer.q3_percentage),
                    q4_percentage |-> OrZero(answer.q4_percentage),
                    staging_percentage |-> OrZero(answer.staging_percentage)])

Q1Advice == "You have too many urgent+important tasks. Focus on prevention and planning."
Q2Advice == "Increase focus on important but not urgent tasks (Q2) for better long-term results."
Q3Advice == "Too many urgent but unimportant tasks. Consider delegation or elimination."
Q4Advice == "Reduce time-wasting activities in Q4. Focus energy elsewhere."
StagingAdvice == "High staging utilization. Process staged items into appropriate quadrants."
Affirmation == "Great quadrant balance! Maintain this distribution for optimal productivity."

\* faulty variant: the staging rule triggering at 20 already
StagingShareHighFrom20(distribution) == distribution.staging_percentage >= 20

\* if distribution.staging_percentage > 20
StagingShareHigh(distribution) == distribution.staging_percentage > 20

\* the recommendations get_quadrant_analysis builds (lines 447-473)
QuadrantRecommendations(distribution) ==
    LET r1 == AppendIf(<< >>, distribution.q1_percentage > 30, Q1Advice)
        r2 == AppendIf(r1, distribution.q2_percentage < 40, Q2Advice)
        r3 == AppendIf(r2, distribution.q3_percentage > 25, Q3Advice)
        r4 == AppendIf(r3, distribution.q4_percentage > 10, Q4Advice)
        r5 == AppendIf(r4, StagingShareHigh(distribution), StagingAdvice)
    IN AppendIf(r5, r5 = << >>, Affirmation)

\* get_quadrant_analysis(user_id); an error of get_quadrant_distribution is
\* caught by "except Exception" and raised as the analysis' own
get_quadrant_analysis(answer) ==
    LET d == get_quadrant_distribution(answer)
    IN IF d.result # OK THEN Reply(AnalysisFailed, NULL)
       ELSE Reply(OK, [distribution |-> d.report,
                       recommendations |-> QuadrantRecommendations(d.report)])

\* get_productivity_trends(user_id, date_range); answer is Raises or, as
\* rows, the list of the tasks_completed of the rows of the last 30 days,
\* oldest first
get_productivity_trends(answer) ==
    IF answer = Raises THEN Reply(TrendsFailed, NULL)
    ELSE Reply(OK, [i \in DOMAIN answer.rows |-> OrZero(answer.rows[i])])

\* get_completion_velocity(user_id, "30_days"); of the row, average_tasks_per_day
get_completion_velocity(answer) ==
    IF answer = Raises THEN Reply(VelocityFailed, NULL)
    ELSE IF answer = NoRows THEN Reply(OK, [average_tasks_per_day |-> 0])
    ELSE Reply(OK, [average_tasks_per_day |-> OrZero(answer.average_tasks_per_day)])

RECURSIVE Sum(_)
Sum(seq) == IF seq = << >> THEN 0 ELSE Head(seq) + Sum(Tail(seq))

\* sum(t.tasks_completed for t in trends[-7:]) and trends[:7]
RecentSum(trends) == Sum(SubSeq(trends, Len(trends) - 6, Len(trends)))
EarlierSum(trends) == IF Len(trends) >= 14 THEN Sum(SubSeq(trends, 1, 7)) ELSE RecentSum(trends)

\* the insights and action items get_productivity_insights builds (lines
\* 499-533); recent_avg > earlier_avg * 1.1 on the sums of seven days
Insights(score, trends, velocity) ==
    LET i1 == <<IF score.overall_score >= 80
                THEN "Excellent productivity! You're maintaining high performance."
                ELSE IF score.overall_score >= 60
                THEN "Good productivity with room for improvement."
                ELSE "Productivity below optimal. Focus on key improvement areas.">>
        i2 == IF Len(trends) >= 7
              THEN IF 10 * RecentSum(trends) > 11 * EarlierSum(trends)
                   THEN Append(i1, "Your task completion rate is trending upward!")
                   ELSE AppendIf(i1, 10 * RecentSum(trends) < 9 * EarlierSum(trends),
                                 "Task completion has slowed recently. Consider reviewing priorities.")
              ELSE i1
    IN AppendIf(i2, velocity.average_tasks_per_day > 5,
                "High task completion rate - great momentum!")

ActionItems(score, trends, velocity) ==
    LET a1 == AppendIf(<< >>, score.overall_score < 60,
                       "Review and optimize your goal-setting process")
        a2 == AppendIf(a1, /\ Len(trends) >= 7
                           /\ ~(10 * RecentSum(trends) > 11 * EarlierSum(trends))
                           /\ 10 * RecentSum(trends) < 9 * EarlierSum(trends),
                       "Identify and address productivity bottlenecks")
        a3 == AppendIf(a2, velocity.average_tasks_per_day < 1,
                       "Increase daily task completion rate")
        a4 == AppendIf(a3, score.quadrant_balance_score < 50,
                       "Improve task organization across quadrants")
    IN AppendIf(a4, score.staging_efficiency_score < 60,
                "Process staging zone items more efficiently")

\* get_productivity_insights(user_id); answers are what the three store calls
\* gave; an error of a component is caught by "except Exception" and raised
\* as the insights' own
get_productivity_insights(score_answer, trends_answer, velocity_answer) ==
    LET productivity_score == calculate_productivity_score(score_answer)
        trends == get_productivity_trends(trends_answer)
        velocity == get_completion_velocity(velocity_answer)
    IN IF productivity_score.result # OK \/ trends.result # OK \/ velocity.result # OK
       THEN Reply(InsightsFailed, NULL)
       ELSE Reply(OK, [productivity_score |-> productivity_score.report,
                       trends |-> trends.report,
                       velocity |-> velocity.report,
                       insights |-> Insights(productivity_score.report, trends.report,
                                             velocity.report),
                       action_items |-> ActionItems(productivity_score.report, trends.report,
                                                    velocity.report)])

\* ------------------------------------------------------------ validation
\* An Optional[int] argument: None, or Some(n)
None == {}
Some(n) == {n}
ValueOf(arg) == CHOOSE n \in arg : TRUE

\* faulty variant: a limit checked against 201
LimitOutOfRangeAbove(limit) == limit < 1 \/ limit > MaxLimit + 1

\* if limit < 1 or limit > 200
LimitOutOfRange(limit) == limit < 1 \/ limit > MaxLimit

\* validate_pagination(limit, offset)
validate_pagination(limit, offset) ==
    LET l == IF limit = None THEN DefaultLimit ELSE ValueOf(limit)
        o == IF offset = None THEN 0 ELSE ValueOf(offset)
    IN IF LimitOutOfRange(l) THEN Reply(LimitInvalid, << >>)
       ELSE IF o < 0 THEN Reply(OffsetInvalid, << >>)
       ELSE Reply(OK, <<l, o>>)

\* ------------------------------------------------------------- requests
\* last: the request that ran last and what its caller got; src is the
\* quadrant the addressed task was in, before the caller's count of
\* non-completed staging tasks when the request arrived, body_user the
\* user_id a GoalUpdate body carries, failed the best-effort steps of the
\* request in which a store call raised, was_completed the completed a toggle
\* found on its task.
NoTask == 0
Request(op, u, t, q, p) ==
    [op |-> op, user |-> u, task_id |-> t, quadrant |-> q, position |-> p,
     sent |-> {}, goal_id |-> NULL, is_staged |-> NULL, result |-> OK,
     body_user |-> NULL, failed |-> {}, was_completed |-> FALSE,
     src |-> IF Owned(tasks, t, u) THEN tasks[t].quadrant ELSE NULL,
     before |-> _count_staging_tasks(tasks, u)]

NoRequest ==
    [op |-> "none", user |-> NULL, task_id |-> NoTask, quadrant |-> NULL,
     position |-> NoPosition, sent |-> {}, goal_id |-> NULL, is_staged |-> NULL,
     result |-> OK, body_user |-> NULL, failed |-> {}, was_completed |-> FALSE,
     src |-> NULL, before |-> 0]

\* what identifies a request: the handler and the arguments the client sent
Sent(req) == [op |-> req.op, user |-> req.user, task_id |-> req.task_id,
              quadrant |-> req.quadrant, position |-> req.position,
              sent |-> req.sent, goal_id |-> req.goal_id]

\* req frees a staging slot: it completes (toggle) or moves out (move_task) a
\* non-completed staging task of its caller
FreesSlot(req, o) ==
    /\ o.result = OK
    /\ Owned(tasks, req.task_id, req.user)
    /\ tasks[req.task_id].quadrant = "staging"
    /\ ~tasks[req.task_id].completed
    /\ \/ req.op = "toggle_task_completion"
       \/ req.op = "move_task" /\ req.quadrant # "staging"

\* retry follows a create or move that the staging cap rejected while exactly
\* 5 non-completed staging tasks existed: "rejected" right after it, "freed" when the next request freed a slot, "retried" when
\* the request after that was the rejected one again; "none" otherwise.
RetryAfter(req, o) ==
    IF retry.phase = "freed" /\ Sent(req) = retry.req
    THEN [retry EXCEPT !.phase = "retried"]
    ELSE IF /\ o.result = StagingFull
            /\ req.op \in {"create_task", "move_task"}
            /\ _count_staging_tasks(tasks, req.user) = StagingCap
    THEN [phase |-> "rejected", req |-> Sent(req)]
    ELSE IF retry.phase = "rejected" /\ req.user = retry.req.user /\ FreesSlot(req, o)
    THEN [retry EXCEPT !.phase = "freed"]
    ELSE [phase |-> "none", req |-> Sent(NoRequest)]

\* budget: the number of requests still to come (the bound of a run)
Commit(o, req) ==
    /\ budget > 0
    /\ tasks' = o.tasks
    /\ subtasks' = o.subtasks
    /\ last' = [req EXCEPT !.result = o.result]
    /\ retry' = RetryAfter(req, o)
    /\ budget' = budget - 1
    /\ inflight' = inflight

\* the id of a new row is fresh; a create retried after a rejection sends
\* the same body and the store gives it the id the rejected one would have had
CreateTask(u, q, g, n) ==
    LET o == create_task(tasks, subtasks, goals, u, nextId, q, g, n)
    IN /\ Commit(o, [Request("create_task", u, nextId, q, NoPosition) EXCEPT !.goal_id = g])
       /\ nextId' = IF o.result = OK THEN nextId + 1 ELSE nextId
       /\ UNCHANGED goals

UpdateTask(u, t, patch) ==
    /\ Commit(update_task(tasks, subtasks, goals, u, t, patch),
              [Request("update_task", u, t, patch.quadrant, patch.position)
                  EXCEPT !.sent = patch.sent, !.goal_id = patch.goal_id])
    /\ UNCHANGED <<goals, nextId>>

DeleteTask(u, t) ==
    /\ Commit(delete_task(tasks, subtasks, u, t), Request("delete_task", u, t, NULL, NoPosition))
    /\ UNCHANGED <<goals, nextId>>

ToggleTask(u, t) ==
    /\ Commit(toggle_task_completion(tasks, subtasks, u, t),
              [Request("toggle_task_completion", u, t, NULL, NoPosition)
                  EXCEPT !.was_completed = Owned(tasks, t, u) /\ tasks[t].completed])
    /\ UNCHANGED <<goals, nextId>>

MoveTask(u, t, q, p, is_staged) ==
    /\ budget > 0
    /\ \E rows \in MoveRows(tasks, u, t, q, p, is_staged) :
          Commit(move_task(tasks, subtasks, u, t, q, p, is_staged, rows),
                 [Request("move_task", u, t, q, p) EXCEPT !.is_staged = is_staged])
    /\ UNCHANGED <<goals, nextId>>

BulkUpdate(u, updates) ==
    /\ budget > 0
    /\ \E T \in bulk_update_tasks(tasks, subtasks, u,
                                  [i \in DOMAIN updates |-> [updates[i] EXCEPT !.rows = << >>]]) :
          Commit(Outcome(T, subtasks, OK),
                 [Request("bulk_update_tasks", u, updates[1].task_id, updates[1].quadrant,
                          updates[1].position) EXCEPT !.is_staged = updates[1].is_staged])
    /\ UNCHANGED <<goals, nextId>>

\* a goals handler's writes and return
CommitGoal(o, req) ==
    /\ budget > 0
    /\ goals' = o.goals
    /\ tasks' = o.tasks
    /\ last' = [req EXCEPT !.result = o.result]
    /\ retry' = [phase |-> "none", req |-> Sent(NoRequest)]
    /\ budget' = budget - 1
    /\ UNCHANGED <<subtasks, nextId, inflight>>

GoalRequest(op, u, g) == [Request(op, u, NoTask, NULL, NoPosition) EXCEPT !.goal_id = g]

CreateGoal(u, g) ==
    /\ g \notin DOMAIN goals
    /\ CommitGoal(create_goal(goals, tasks, u, g), GoalRequest("create_goal", u, g))

GetGoal(u, g) ==
    /\ budget > 0
    /\ CommitGoal(get_goal_by_id(goals, tasks, u, g), GoalRequest("get_goal_by_id", u, g))

UpdateGoal(caller, g, goal_data) ==
    /\ budget > 0
    /\ CommitGoal(update_goal(goals, tasks, caller, g, goal_data),
                  [GoalRequest("update_goal", caller, g)
                      EXCEPT !.body_user = goal_data.user_id, !.sent = goal_data.sent])

DeleteGoal(u, g) ==
    /\ budget > 0
    /\ CommitGoal(delete_goal(goals, tasks, u, g), GoalRequest("delete_goal", u, g))

GetTask(u, t) ==
    /\ Commit(get_task_by_id(tasks, subtasks, u, t),
              Request("get_task_by_id", u, t, NULL, NoPosition))
    /\ UNCHANGED <<goals, nextId>>

MoveTaskFailing(u, t, q, p) ==
    /\ budget > 0
    /\ IF ~MoveWrites(tasks, u, t, q)
       THEN Commit(move_task(tasks, subtasks, u, t, q, p, NULL, << >>),
                   Request("move_task", u, t, q, p))
       ELSE \E rows \in MoveRows(tasks, u, t, q, p, NULL) :
            \E cfail \in FailurePoints(rows) :
            \E trows \in ReorderRows(AfterCompaction(tasks, u, t, q, p, NULL, rows, cfail),
                                     u, q, t) :
            \E rfail \in FailurePoints(trows) :
               Commit(move_task_failing(tasks, subtasks, u, t, q, p, NULL,
                                        rows, cfail, trows, rfail),
                      [Request("move_task", u, t, q, p)
                          EXCEPT !.failed = FailedSteps(tasks, t, q, cfail, rfail)])
    /\ UNCHANGED <<goals, nextId>>

DeleteGoalFailing(u, g, failed) ==
    /\ budget > 0
    /\ CommitGoal(delete_goal_failing(goals, tasks, u, g, failed),
                  [GoalRequest("delete_goal", u, g)
                      EXCEPT !.failed = IF failed /\ GoalOwned(goals, g, u)
                                        THEN {"_handle_goal_deletion"} ELSE {}])

\* an analytics request: last keeps what the store calls gave (answer) and
\* what the caller got (result, report)
Answered(op, answer, o) ==
    /\ budget > 0
    /\ last' = [op |-> op, answer |-> answer, result |-> o.result, report |-> o.report]
    /\ budget' = budget - 1
    /\ UNCHANGED <<tasks, subtasks, goals, nextId, retry, inflight>>

ProductivityScore(answers) ==
    /\ budget > 0
    /\ \E answer \in answers :
          Answered("calculate_productivity_score", answer,
                   calculate_productivity_score(answer))

QuadrantAnalysis(answers) ==
    /\ budget > 0
    /\ \E answer \in answers :
          Answered("get_quadrant_analysis", answer, get_quadrant_analysis(answer))

ProductivityInsights(score_answers, trends_answers, velocity_answers) ==
    /\ budget > 0
    /\ \E score_answer \in score_answers, trends_answer \in trends_answers,
          velocity_answer \in velocity_answers :
          Answered("get_productivity_insights",
                   [score |-> score_answer, trends |-> trends_answer,
                    velocity |-> velocity_answer],
                   get_productivity_insights(score_answer, trends_answer, velocity_answer))

ValidatePagination(limits, offsets) ==
    /\ budget > 0
    /\ \E limit \in limits, offset \in offsets :
          Answered("validate_pagination", [limit |-> limit, offset |-> offset],
                   validate_pagination(limit, offset))

\* ------------------------------------------------ requests that interleave
\* Two requests in progress at once: inflight[i] is request i, which takes
\* one store call per step.  pc names the store call it is to make next,
\* source the quadrant its get_task_by_id read, pending the row writes
\* (<<id, position>>) its loop has still to make from the list its select
\* read, overlapped whether it made a store call while the other request
\* was in progress.
Slots == 1..2

Idle ==
    [op |-> "none", pc |-> "idle", user |-> NULL, task_id |-> NoTask, quadrant |-> NULL,
     position |-> NoPosition, source |-> NULL, pending |-> << >>, result |-> NULL,
     overlapped |-> FALSE]

NoneInFlight == [i \in Slots |-> Idle]

InProgress(r) == r.pc \notin {"idle", "done"}

\* raise, or return: the request is over
Over(r, result) == [r EXCEPT !.pc = "done", !.result = result, !.pending = << >>]

\* for index, task in enumerate(rows): if task["position"] != index: the
\* writes of the compaction, from the positions its select read
RECURSIVE CompactWrites(_, _, _)
CompactWrites(T, rows, index) ==
    IF rows = << >> THEN << >>
    ELSE (IF T[Head(rows)].position # index THEN <<<<Head(rows), index>>>> ELSE << >>)
         \o CompactWrites(T, Tail(rows), index + 1)

\* for task in rows: if task["position"] >= new_position: the writes of the
\* shift, from the positions its select read
RECURSIVE ReorderWrites(_, _, _)
ReorderWrites(T, rows, new_position) ==
    IF rows = << >> THEN << >>
    ELSE (IF T[Head(rows)].position >= new_position
          THEN <<<<Head(rows), T[Head(rows)].position + 1>>>> ELSE << >>)
         \o ReorderWrites(T, Tail(rows), new_position)

\* .update({"position": ...}).eq("id", id).eq("user_id", user_id)
WritePosition(T, u, w) ==
    IF Owned(T, w[1], u) THEN [T EXCEPT ![w[1]].position = w[2]] ELSE T

\* one store call of request i: the store and the request after it
StoreCall(i, r, T) ==
    /\ tasks' = T
    /\ inflight' = [inflight EXCEPT ![i] =
                       [r EXCEPT !.overlapped =
                           @ \/ \E j \in Slots \ {i} : InProgress(inflight[j])]]
    /\ UNCHANGED <<subtasks, goals, last, retry, budget>>

\* move_task arrives: get_task_by_id (line 405)
StartMove(i, u, t, q, p) ==
    /\ inflight[i].pc = "idle"
    /\ LET r == [Idle EXCEPT !.op = "move_task", !.user = u, !.task_id = t,
                             !.quadrant = q, !.position = p]
       IN IF ~Owned(tasks, t, u) THEN StoreCall(i, Over(r, TaskNotFound), tasks)
          ELSE StoreCall(i, [r EXCEPT !.source = tasks[t].quadrant,
                                      !.pc = IF MoveChecksCapacity(tasks[t].quadrant, q)
                                             THEN "count_staging" ELSE "write"],
                         tasks)
    /\ UNCHANGED nextId

\* create_task arrives: _count_user_tasks (line 166)
StartCreate(i, u, q) ==
    /\ inflight[i].pc = "idle"
    /\ LET r == [Idle EXCEPT !.op = "create_task", !.user = u, !.quadrant = q]
       IN IF TaskCeilingReached(_count_user_tasks(tasks, u))
          THEN StoreCall(i, Over(r, TooManyTasks), tasks)
          ELSE StoreCall(i, [r EXCEPT !.pc = IF q = "staging" THEN "count_staging"
                                             ELSE "next_position"],
                         tasks)
    /\ UNCHANGED nextId

\* _count_staging_tasks and the cap (lines 172-174, 411-413)
CountStaging(i) ==
    LET r == inflight[i]
    IN /\ r.pc = "count_staging"
       /\ IF StagingZoneFull(_count_staging_tasks(tasks, r.user))
          THEN StoreCall(i, Over(r, StagingFull), tasks)
          ELSE StoreCall(i, [r EXCEPT !.pc = IF r.op = "create_task" THEN "next_position"
                                             ELSE "write"],
                         tasks)
       /\ UNCHANGED nextId

\* _get_next_position (lines 189-191)
NextPosition(i) ==
    LET r == inflight[i]
    IN /\ r.pc = "next_position"
       /\ StoreCall(i, [r EXCEPT !.position = _get_next_position(tasks, r.user, r.quadrant),
                                 !.pc = "insert"],
                    tasks)
       /\ UNCHANGED nextId

\* the insert of create_task (line 203)
Insert(i) ==
    LET r == inflight[i]
        row == [user_id |-> r.user, goal_id |-> NULL, quadrant |-> r.quadrant,
                position |-> r.position, completed |-> FALSE,
                is_staged |-> (r.quadrant = "staging"),
                staged_at |-> IF r.quadrant = "staging" THEN TS ELSE NULL,
                organized_at |-> NULL, completed_at |-> NULL]
    IN /\ r.pc = "insert"
       /\ StoreCall(i, Over([r EXCEPT !.task_id = nextId], OK),
                    [t \in DOMAIN tasks \cup {nextId} |->
                        IF t = nextId THEN row ELSE tasks[t]])
       /\ nextId' = nextId + 1

\* the primary write of move_task (line 439): update_data was built from the
\* source quadrant read at arrival
MoveWrite(i) ==
    LET r == inflight[i]
    IN /\ r.pc = "write"
       /\ IF ~Owned(tasks, r.task_id, r.user) THEN StoreCall(i, Over(r, MoveFailed), tasks)
          ELSE StoreCall(i, [r EXCEPT !.pc = IF r.source # r.quadrant THEN "compact_select"
                                             ELSE "reorder_select"],
                         [tasks EXCEPT ![r.task_id] =
                             MovedRow([@ EXCEPT !.quadrant = r.source],
                                      r.quadrant, r.position, NULL)])
       /\ UNCHANGED nextId

\* the select of the compaction (line 648)
CompactSelect(i) ==
    LET r == inflight[i]
    IN /\ r.pc = "compact_select"
       /\ \E rows \in OrderedBy(tasks, Partition(tasks, r.user, r.source)) :
             LET writes == CompactWrites(tasks, rows, 0)
             IN StoreCall(i, [r EXCEPT !.pending = writes,
                                       !.pc = IF writes = << >> THEN "reorder_select"
                                              ELSE "compact_write"],
                          tasks)
       /\ UNCHANGED nextId

\* the select of the shift (line 622)
ReorderSelect(i) ==
    LET r == inflight[i]
    IN /\ r.pc = "reorder_select"
       /\ \E rows \in ReorderRows(tasks, r.user, r.quadrant, r.task_id) :
             LET writes == ReorderWrites(tasks, rows, r.position)
             IN StoreCall(i, IF writes = << >> THEN Over(r, OK)
                             ELSE [r EXCEPT !.pending = writes, !.pc = "reorder_write"],
                          tasks)
       /\ UNCHANGED nextId

\* one write of the compaction's or the shift's loop (lines 656-659, 630-633)
RowWrite(i) ==
    LET r == inflight[i]
    IN /\ r.pc \in {"compact_write", "reorder_write"}
       /\ StoreCall(i,
                    IF Len(r.pending) > 1 THEN [r EXCEPT !.pending = Tail(r.pending)]
                    ELSE IF r.pc = "compact_write"
                    THEN [r EXCEPT !.pending = << >>, !.pc = "reorder_select"]
                    ELSE Over(r, OK),
                    WritePosition(tasks, r.user, Head(r.pending)))
       /\ UNCHANGED nextId

\* no request is in progress
Quiet == \A i \in Slots : ~InProgress(inflight[i])

\* ----------------------------------------------------------- the service
EmptyStore == [t \in {} |-> NULL]

\* Init: the empty store.
Init ==
    /\ tasks = EmptyStore
    /\ subtasks = {}
    /\ goals = EmptyStore
    /\ nextId = 1
    /\ budget = MaxOps
    /\ last = NoRequest
    /\ retry = [phase |-> "none", req |-> Sent(NoRequest)]
    /\ inflight = NoneInFlight

TaskIds == 1..MaxTasks
Positions == 0..MaxPos
SpecQuadrants == {"staging", "Q1", "Q2"}
SpecUsers == {"u1"}
BulkItems == {[task_id |-> t, quadrant |-> q, position |-> 0, is_staged |-> s, rows |-> << >>] :
                 t \in TaskIds, q \in {"Q1", "staging"}, s \in {"false"}}

Next ==
    \/ \E u \in SpecUsers, q \in SpecQuadrants, g \in {NULL, "g1"}, n \in 0..1 :
          nextId <= MaxTasks /\ CreateTask(u, q, g, n)
    \/ \E u \in SpecUsers, t \in TaskIds, q \in SpecQuadrants :
          UpdateTask(u, t, TaskUpdate({"quadrant"}, q, 0, FALSE, NULL, 0))
    \/ \E u \in SpecUsers, t \in TaskIds, p \in Positions :
          UpdateTask(u, t, TaskUpdate({"position"}, NULL, p, FALSE, NULL, 0))
    \/ \E u \in SpecUsers, t \in TaskIds, q \in SpecQuadrants, p \in Positions :
          UpdateTask(u, t, TaskUpdate({"quadrant", "position"}, q, p, FALSE, NULL, 0))
    \/ \E u \in SpecUsers, t \in TaskIds, c \in BOOLEAN :
          UpdateTask(u, t, TaskUpdate({"completed"}, NULL, 0, c, NULL, 0))
    \/ \E u \in SpecUsers, t \in TaskIds : DeleteTask(u, t)
    \/ \E u \in SpecUsers, t \in TaskIds : ToggleTask(u, t)
    \/ \E u \in SpecUsers, t \in TaskIds, q \in SpecQuadrants, p \in Positions,
          s \in {NULL, "true", "false"} : MoveTask(u, t, q, p, s)
    \/ \E u \in SpecUsers, a \in BulkItems, b \in BulkItems : BulkUpdate(u, <<a, b>>)
    \/ \E u \in SpecUsers : CreateGoal(u, "g1")

Spec == Init /\ [][Next]_vars

\* ------------------------------------------------- the staging zone, near its cap
\* Seeded(k, done): the store after create_task(Q1) (row 1) and then k times
\* create_task(staging) (rows 2..k+1), each row of done completed by
\* toggle_task_completion right after its creation; a create the cap rejects
\* leaves no row.
RECURSIVE Seeded(_, _)
Seeded(k, done) ==
    IF k = 0
    THEN create_task(EmptyStore, {}, EmptyStore, "u1", 1, "Q1", NULL, 0).tasks
    ELSE LET T == Seeded(k - 1, done)
             o == create_task(T, {}, EmptyStore, "u1", k + 1, "staging", NULL, 0)
         IN IF o.result = OK /\ (k + 1) \in done
            THEN toggle_task_completion(o.tasks, {}, "u1", k + 1).tasks
            ELSE o.tasks

\* goal g1 is the caller's, goal g2 does not exist;
\* the requests of SpecCap address row 1 (in Q1), row 2 (in staging, completed
\* or not) and row 3 (in staging); they send position 0
CapIds == {1, 2, 3}
CapQuadrants == {"staging", "Q1"}
CapPatches ==
    {TaskUpdate({"quadrant"}, q, 0, FALSE, NULL, 0) : q \in CapQuadrants}
    \cup {TaskUpdate({"quadrant", "goal_id"}, "staging", 0, FALSE, g, 0) : g \in {"g1", "g2"}}
    \cup {TaskUpdate({"completed"}, NULL, 0, c, NULL, 0) : c \in BOOLEAN}
    \cup {TaskUpdate({"position"}, NULL, 0, FALSE, NULL, 0)}

InitCap ==
    /\ \E k \in (StagingCap - 1)..(StagingCap + 1), done \in {{}, {2}} :
          /\ tasks = Seeded(k, done)
          /\ nextId = k + 2
    /\ subtasks = {}
    /\ goals = create_goal(EmptyStore, EmptyStore, "u1", "g1").goals
    /\ budget = CapOps
    /\ last = NoRequest
    /\ retry = [phase |-> "none", req |-> Sent(NoRequest)]
    /\ inflight = NoneInFlight

NextCap ==
    \/ \E q \in CapQuadrants, g \in {NULL, "g1", "g2"} : CreateTask("u1", q, g, 1)
    \/ \E t \in CapIds, patch \in CapPatches : UpdateTask("u1", t, patch)
    \/ \E t \in CapIds : DeleteTask("u1", t)
    \/ \E t \in CapIds : ToggleTask("u1", t)
    \/ \E t \in CapIds, q \in CapQuadrants : MoveTask("u1", t, q, 0, NULL)

SpecCap == InitCap /\ [][NextCap]_vars

\* ------------------------------------------- the staging zone, at the task ceiling
\* Filler(b): b more rows of u1, the rows of b earlier create_task(Q4) calls
Filler(b) ==
    [t \in (MaxUserTasks + 1)..(MaxUserTasks + b) |->
        [user_id |-> "u1", goal_id |-> NULL, quadrant |-> "Q4",
         position |-> t - MaxUserTasks - 1, completed |-> FALSE, is_staged |-> FALSE,
         staged_at |-> NULL, organized_at |-> NULL, completed_at |-> NULL]]

\* u1 holds 6, MaxUserTasks - 1 or MaxUserTasks rows, 5 of them in staging
InitCeil ==
    /\ \E b \in {0, MaxUserTasks - StagingCap - 2, MaxUserTasks - StagingCap - 1},
          done \in {{}, {2}} :
          tasks = Seeded(StagingCap, done) @@ Filler(b)
    /\ nextId = StagingCap + 2
    /\ subtasks = {}
    /\ goals = EmptyStore
    /\ budget = CeilOps
    /\ last = NoRequest
    /\ retry = [phase |-> "none", req |-> Sent(NoRequest)]
    /\ inflight = NoneInFlight

NextCeil ==
    \/ \E q \in CapQuadrants : CreateTask("u1", q, NULL, 1)
    \/ \E t \in CapIds : DeleteTask("u1", t)
    \/ \E t \in CapIds : ToggleTask("u1", t)
    \/ \E t \in CapIds, q \in CapQuadrants : MoveTask("u1", t, q, 0, NULL)

SpecCeil == InitCeil /\ [][NextCeil]_vars

\* --------------------------------------------- partitions with gaps and ties
\* Laid(places): the store after, for each <<u, q, p>> of places in turn,
\* create_task(u, q) and update_task(position = p) on the new row (row i is
\* the i-th of places).
RECURSIVE Laid(_)
Laid(places) ==
    IF places = << >> THEN EmptyStore
    ELSE LET n == Len(places)
             pl == places[n]
             T == create_task(Laid(SubSeq(places, 1, n - 1)), {}, EmptyStore,
                              pl[1], n, pl[2], NULL, 0).tasks
         IN update_task(T, {}, EmptyStore, pl[1], n,
                        TaskUpdate({"position"}, NULL, pl[3], FALSE, NULL, 0)).tasks

PosQuadrants == {"Q1", "Q2"}
PosUsers == {"u1", "u2"}
Places == {<<"u1", "Q1">>, <<"u1", "Q2">>, <<"u2", "Q1">>} \X (0..MaxGapPos)
PlaceLists == UNION {[1..n -> {<<pl[1][1], pl[1][2], pl[2]>> : pl \in Places}] : n \in 0..MaxRows}

InitPos ==
    /\ \E places \in PlaceLists :
          /\ tasks = Laid(places)
          /\ nextId = Len(places) + 1
    /\ subtasks = {}
    /\ goals = EmptyStore
    /\ budget = 1
    /\ last = NoRequest
    /\ retry = [phase |-> "none", req |-> Sent(NoRequest)]
    /\ inflight = NoneInFlight

\* one run of _compact_positions_in_quadrant(user_id, quadrant); last.position
\* keeps the highest position among the rows it read
Compact(u, q) ==
    /\ budget > 0
    /\ \E rows \in OrderedBy(tasks, Partition(tasks, u, q)) :
          Commit(Outcome(_compact_positions_in_quadrant(tasks, u, q, rows), subtasks, OK),
                 Request("_compact_positions_in_quadrant", u, NoTask, q,
                         IF rows = << >> THEN NoPosition
                         ELSE tasks[rows[Len(rows)]].position))
    /\ UNCHANGED <<goals, nextId>>

NextPos ==
    \/ \E u \in PosUsers, q \in PosQuadrants : Compact(u, q)
    \/ \E t \in 1..MaxRows, q \in PosQuadrants, p \in Positions :
          MoveTask("u1", t, q, p, NULL)

SpecPos == InitPos /\ [][NextPos]_vars

\* ------------------------------------------------ goals, near their ceiling
\* FillerGoals(b): b more goals of u1, the rows of b earlier create_goal calls
FillerGoals(b) ==
    [g \in {ToString(i) : i \in 1..b} |-> [user_id |-> "u1", archived |-> FALSE, title |-> "t0"]]

\* The store after u1 created goals g1 and g3 and u2 goal g2, u1 created
\* task 1 (Q1, goal g1), task 2 (Q1, goal g3) and task 4 (Q2, no goal), u2
\* task 3 (Q1, goal g2), and, when arch, u1 deleted goal g3.
GoalsLaid(arch) ==
    LET G1 == create_goal(EmptyStore, EmptyStore, "u1", "g1").goals
        G2 == create_goal(G1, EmptyStore, "u2", "g2").goals
        G3 == create_goal(G2, EmptyStore, "u1", "g3").goals
        T1 == create_task(EmptyStore, {}, G3, "u1", 1, "Q1", "g1", 0).tasks
        T2 == create_task(T1, {}, G3, "u1", 2, "Q1", "g3", 0).tasks
        T3 == create_task(T2, {}, G3, "u2", 3, "Q1", "g2", 0).tasks
        T4 == create_task(T3, {}, G3, "u1", 4, "Q2", NULL, 0).tasks
    IN IF arch THEN delete_goal(G3, T4, "u1", "g3") ELSE GoalOutcome(G3, T4, OK)

InitGoals ==
    /\ \E b \in {0, MaxActiveGoals - 3, MaxActiveGoals - 2}, arch \in BOOLEAN :
          /\ goals = GoalsLaid(arch).goals @@ FillerGoals(b)
          /\ tasks = GoalsLaid(arch).tasks
    /\ nextId = 5
    /\ subtasks = {}
    /\ budget = GoalOps
    /\ last = NoRequest
    /\ retry = [phase |-> "none", req |-> Sent(NoRequest)]
    /\ inflight = NoneInFlight

\* goal g9 and task 9 do not exist; n1 and n2 are the ids of new goals
GoalPatches ==
    {<<{}, FALSE>>, <<{"title"}, FALSE>>, <<{"archived"}, FALSE>>, <<{"archived"}, TRUE>>}

NextGoals ==
    \/ \E g \in {"n1", "n2"} : CreateGoal("u1", g)
    \/ \E g \in {"g1", "g2", "g9"} : GetGoal("u1", g)
    \/ \E u \in Users, g \in {"g1", "g9"} : DeleteGoal(u, g)
    \/ \E caller \in Users, body \in Users, pt \in GoalPatches :
          UpdateGoal(caller, "g1", GoalUpdate(body, pt[1], pt[2]))
    \/ \E g \in {"g3", "g9"} : UpdateGoal("u1", g, GoalUpdate("u1", {"archived"}, FALSE))
    \/ \E u \in Users, t \in {1, 9} : GetTask(u, t)
    \/ \E u \in Users, t \in {1, 9} : DeleteTask(u, t)
    \/ \E u \in Users, t \in {1, 9} : ToggleTask(u, t)
    \/ \E u \in Users, t \in {1, 9} : MoveTask(u, t, "Q2", 0, NULL)
    \/ \E u \in Users, t \in {1, 9}, g \in {"g1", "g2", "g9"} :
          UpdateTask(u, t, TaskUpdate({"goal_id"}, NULL, 0, FALSE, g, 0))
    \/ \E g \in {NULL, "g1", "g2", "g9"} : CreateTask("u1", "Q1", g, 1)

SpecGoals == InitGoals /\ [][NextGoals]_vars

\* ------------------------------------------------ store calls that raise
\* The store of GoalsLaid (tasks 1 and 2 of u1 in Q1 at 0 and 1, task 4 of u1
\* in Q2 at 0, task 3 of u2), and requests whose best-effort steps may fail.
InitFail ==
    /\ goals = GoalsLaid(FALSE).goals
    /\ tasks = GoalsLaid(FALSE).tasks
    /\ nextId = 5
    /\ subtasks = {}
    /\ budget = FailOps
    /\ last = NoRequest
    /\ retry = [phase |-> "none", req |-> Sent(NoRequest)]
    /\ inflight = NoneInFlight

NextFail ==
    \/ \E t \in {1, 2, 4, 9}, q \in PosQuadrants, p \in Positions : MoveTaskFailing("u1", t, q, p)
    \/ \E u \in Users, g \in {"g1", "g3"}, failed \in BOOLEAN : DeleteGoalFailing(u, g, failed)

SpecFail == InitFail /\ [][NextFail]_vars

\* ------------------------------------------------------------- analytics
\* The answers of the store: score rows with values on both sides of every
\* threshold the service compares them with, distributions whose shares are
\* all 0 (no active task) or add up to 100, trend lists of 0, 7 and 14 days.
ScoreRows ==
    [kind : {"row"},
     overall_score : {NoValue, 0, 59, 60, 79, 80},
     goal_completion_score : {NoValue, 50},
     task_completion_score : {50},
     quadrant_balance_score : {NoValue, 49, 50},
     consistency_score : {50},
     staging_efficiency_score : {0, 59, 60},
     score_trend : {NULL, "improving"},
     recommendations : {<< >>, <<"Complete more tasks">>}]

Shares == {0, 9, 10, 11, 19, 20, 21, 24, 25, 26, 29, 30, 31, 39, 40, 41, 50, 60, 100}

Distribution(q1, q2, q3, q4, staging) ==
    [kind |-> "row", q1_percentage |-> q1, q2_percentage |-> q2, q3_percentage |-> q3,
     q4_percentage |-> q4, staging_percentage |-> staging]

\* shares that add up to 100, and the rows of a user with no active task
DistributionRows ==
    {Distribution(s[1], 100 - (s[1] + s[2] + s[3] + s[4]), s[2], s[3], s[4]) :
        s \in {x \in Shares \X Shares \X Shares \X Shares : x[1] + x[2] + x[3] + x[4] <= 100}}
    \cup {Distribution(0, 0, 0, 0, 0), Distribution(NoValue, NoValue, NoValue, NoValue, NoValue)}

Week(n) == [i \in 1..7 |-> n]
TrendLists ==
    [kind : {"rows"},
     rows : {<< >>, Week(1), Week(0) \o Week(1), Week(1) \o Week(0), Week(1) \o Week(1),
             Week(NoValue)}]

VelocityRows == [kind : {"row"}, average_tasks_per_day : {NoValue, 0, 1, 5, 6}]

InsightScoreRows ==
    {r \in ScoreRows : r.goal_completion_score = 50 /\ r.score_trend = NULL
                       /\ r.recommendations = << >>}

InitAnalytics ==
    /\ tasks = EmptyStore
    /\ subtasks = {}
    /\ goals = EmptyStore
    /\ nextId = 1
    /\ budget = 1
    /\ last = NoRequest
    /\ retry = [phase |-> "none", req |-> Sent(NoRequest)]
    /\ inflight = NoneInFlight

NextAnalytics ==
    \/ ProductivityScore({Raises, NoRows} \cup ScoreRows)
    \/ QuadrantAnalysis({Raises, NoRows} \cup DistributionRows)
    \/ ProductivityInsights({Raises, NoRows} \cup InsightScoreRows,
                            {Raises} \cup TrendLists,
                            {Raises, NoRows} \cup VelocityRows)

SpecAnalytics == InitAnalytics /\ [][NextAnalytics]_vars

\* ------------------------------------------------------ two users' tasks
\* The store after u1 created a task in Q1 (row 1) and k tasks in staging
\* (rows 2..k+1), and u2 two tasks in staging (rows 11 and 12) and one in Q1
\* (row 13).
TwoUsersLaid(k) ==
    LET T1 == create_task(Seeded(k, {}), {}, EmptyStore, "u2", 11, "staging", NULL, 0).tasks
        T2 == create_task(T1, {}, EmptyStore, "u2", 12, "staging", NULL, 0).tasks
    IN create_task(T2, {}, EmptyStore, "u2", 13, "Q1", NULL, 0).tasks

InitUsers ==
    /\ \E k \in {StagingCap - 2, StagingCap - 1, StagingCap} : tasks = TwoUsersLaid(k)
    /\ nextId = 14
    /\ subtasks = {}
    /\ goals = EmptyStore
    /\ budget = UserOps
    /\ last = NoRequest
    /\ retry = [phase |-> "none", req |-> Sent(NoRequest)]
    /\ inflight = NoneInFlight

NextUsers ==
    \/ \E u \in Users, q \in CapQuadrants : CreateTask(u, q, NULL, 0)
    \/ \E u \in Users, t \in {1, 2, 11, 13}, q \in CapQuadrants : MoveTask(u, t, q, 0, NULL)
    \/ \E u \in Users, t \in {1, 13}, q \in CapQuadrants :
          UpdateTask(u, t, TaskUpdate({"quadrant"}, q, 0, FALSE, NULL, 0))
    \/ \E u \in Users, t \in {2, 11} :
          UpdateTask(u, t, TaskUpdate({"position"}, NULL, 1, FALSE, NULL, 0))
    \/ \E u \in Users, t \in {2, 11} : ToggleTask(u, t)
    \/ \E u \in Users, t \in {2, 11} : DeleteTask(u, t)

SpecTwoUsers == InitUsers /\ [][NextUsers]_vars

\* ------------------------------------------------------------ pagination
\* limits on both sides of 1 and of 200, offsets on both sides of 0
OptionalLimits == {None} \cup {Some(n) : n \in -1..(MaxLimit + 2)}
OptionalOffsets == {None} \cup {Some(n) : n \in -2..MaxOffset}

NextPagination == ValidatePagination(OptionalLimits, OptionalOffsets)

SpecPagination == InitAnalytics /\ [][NextPagination]_vars

\* ------------------------------------------------- two requests at once
\* The store after u1 created three tasks in Q1 (rows 1..3), one in Q2 (row
\* 4) and four in staging (rows 5..8).  Request 1 moves row 1 and request 2
\* row 2, to the head of Q2 or the end of staging, or they create a task in
\* staging; their store calls interleave.  While none is in progress, a
\* whole move_task to another quadrant or a whole compaction may run.
RaceLaid ==
    Laid(<<<<"u1", "Q1", 0>>, <<"u1", "Q1", 1>>, <<"u1", "Q1", 2>>, <<"u1", "Q2", 0>>,
           <<"u1", "staging", 0>>, <<"u1", "staging", 1>>, <<"u1", "staging", 2>>,
           <<"u1", "staging", 3>>>>)

InitRace ==
    /\ tasks = RaceLaid
    /\ nextId = 9
    /\ subtasks = {}
    /\ goals = EmptyStore
    /\ budget = RaceOps
    /\ last = NoRequest
    /\ retry = [phase |-> "none", req |-> Sent(NoRequest)]
    /\ inflight = NoneInFlight

NextRace ==
    \/ \E i \in Slots : StartMove(i, "u1", i, "Q2", 0)
    \/ \E i \in Slots : StartMove(i, "u1", i, "staging", StagingCap - 1)
    \/ \E i \in Slots : StartCreate(i, "u1", "staging")
    \/ \E i \in Slots : CountStaging(i)
    \/ \E i \in Slots : NextPosition(i)
    \/ \E i \in Slots : Insert(i)
    \/ \E i \in Slots : MoveWrite(i)
    \/ \E i \in Slots : CompactSelect(i)
    \/ \E i \in Slots : ReorderSelect(i)
    \/ \E i \in Slots : RowWrite(i)
    \/ \E q \in {"Q1", "Q2", "staging"} : Quiet /\ Compact("u1", q)
    \/ \E t \in {3, 4}, q \in PosQuadrants :
          Quiet /\ tasks[t].quadrant # q /\ MoveTask("u1", t, q, 0, NULL)

SpecRace == InitRace /\ [][NextRace]_vars

\* ============================================================== claims
\* A step that ran handler op (every request spends one unit of budget).
Ran(op) == budget' # budget /\ last'.op = op

\* ---------------------------------------------------------------- C1
\* C1: in every reachable state a user has at most 5 non-completed tasks
\* whose quadrant is staging.
C1_AtMostFiveActiveInStaging ==
    \A u \in Users : _count_staging_tasks(tasks, u) <= StagingCap

\* ---------------------------------------------------------------- C2
\* a create_task(quadrant = staging) that arrives when its caller has exactly
\* 5 non-completed staging tasks
CreateIntoFullStaging ==
    /\ Ran("create_task")
    /\ last'.quadrant = "staging"
    /\ _count_staging_tasks(tasks, last'.user) = StagingCap

EntersFullStaging ==
    /\ Ran("move_task") \/ Ran("update_task")
    /\ last'.quadrant = "staging"
    /\ last'.src \notin {NULL, "staging"}
    /\ last'.goal_id = NULL \/ _validate_goal_ownership(goals, last'.goal_id, last'.user)
    /\ _count_staging_tasks(tasks, last'.user) >= StagingCap

C4_RetryAccepted ==
    retry.phase = "retried" => last.result = OK

\* C4 (amended): sent again, the request is no longer rejected by the cap; a
\* move is accepted, and a create is accepted unless its goal_id names no goal
\* of the caller (the goal check runs after the capacity check).
C4_RetryPassesCap ==
    retry.phase = "retried" =>
        /\ last.result # StagingFull
        /\ last.op = "move_task" => last.result = OK
        /\ (/\ last.op = "create_task"
            /\ last.goal_id = NULL \/ _validate_goal_ownership(goals, last.goal_id, last.user))
           => last.result = OK

\* C4 witness: the retried move, accepted
C4_Witness ==
    /\ retry.phase = "retried"
    /\ last.op = "move_task"
    /\ last.result = OK
    /\ tasks[last.task_id].quadrant = "staging"

\* ---------------------------------------------------------------- C5
\* C5: a move_task whose source quadrant is staging, and an update_task that
\* does not change the quadrant, never fail with the capacity error.
C5_NoCapCheckForTaskInStaging ==
    (\/ last.op = "move_task" /\ last.src = "staging"
     \/ /\ last.op = "update_task"
        /\ last.src # NULL
        /\ "quadrant" \notin last.sent \/ last.quadrant = last.src)
    => last.result # StagingFull

\* C5 witness: a move inside a full staging zone, accepted
C5_Witness ==
    /\ last.op = "move_task"
    /\ last.src = "staging"
    /\ last.quadrant = "staging"
    /\ last.before >= StagingCap
    /\ last.result = OK

\* ---------------------------------------------------------------- C6
\* C6: in every reachable state every task has is_staged = (quadrant =
\* staging), and what a move_task does is what it would have done had its
\* request carried no is_staged.
C6_IsStagedFollowsQuadrant ==
    /\ [](\A t \in DOMAIN tasks : tasks[t].is_staged = (tasks[t].quadrant = "staging"))
    /\ [][Ran("move_task") =>
             \E rows \in MoveRows(tasks, last'.user, last'.task_id, last'.quadrant,
                                  last'.position, NULL) :
                 LET o == move_task(tasks, subtasks, last'.user, last'.task_id,
                                    last'.quadrant, last'.position, NULL, rows)
                 IN tasks' = o.tasks /\ subtasks' = o.subtasks /\ last'.result = o.result]_vars

\* C6 witness: a move into staging whose request said is_staged = false
C6_Witness ==
    /\ last.op = "move_task"
    /\ last.result = OK
    /\ last.is_staged = "false"
    /\ last.src = "Q1"
    /\ tasks[last.task_id].quadrant = "staging"
    /\ tasks[last.task_id].is_staged

\* ---------------------------------------------------------------- C7
\* C7: a successful move_task from staging to Q1..Q4 leaves the task with
\* is_staged false, staged_at null and organized_at set; one from Q1..Q4 to
\* staging leaves it with is_staged true, staged_at set and organized_at
\* null; one that stays on its side of the boundary leaves the three as they were.
C7_MoveBookkeeping ==
    [][(Ran("move_task") /\ last'.result = OK) =>
          LET old == tasks[last'.task_id]
              new == tasks'[last'.task_id]
          IN /\ (old.quadrant = "staging" /\ new.quadrant # "staging") =>
                    (~new.is_staged /\ new.staged_at = NULL /\ new.organized_at = TS)
             /\ (old.quadrant # "staging" /\ new.quadrant = "staging") =>
                    (new.is_staged /\ new.staged_at = TS /\ new.organized_at = NULL)
             /\ ((old.quadrant = "staging") = (new.quadrant = "staging")) =>
                    /\ new.is_staged = old.is_staged
                    /\ new.staged_at = old.staged_at
                    /\ new.organized_at = old.organized_at]_vars

\* C7 witness: a task created in staging, moved out to Q1
C7_Witness ==
    /\ last.op = "move_task"
    /\ last.result = OK
    /\ last.src = "staging"
    /\ tasks[last.task_id].quadrant = "Q1"
    /\ ~tasks[last.task_id].is_staged
    /\ tasks[last.task_id].staged_at = NULL
    /\ tasks[last.task_id].organized_at = TS

\* ---------------------------------------------------------------- C8
\* C8: an update_task that changes the quadrant across the staging boundary
\* applies the full bookkeeping (entering: is_staged true, staged_at set,
\* organized_at cleared; leaving: is_staged false, organized_at set, staged_at
\* cleared), and so no task ever has both staged_at and organized_at set.
C8_UpdateBookkeeping ==
    /\ [][(Ran("update_task") /\ last'.result = OK /\ "quadrant" \in last'.sent) =>
             LET old == tasks[last'.task_id]
                 new == tasks'[last'.task_id]
             IN /\ (old.quadrant = "staging" /\ new.quadrant # "staging") =>
                       (~new.is_staged /\ new.staged_at = NULL /\ new.organized_at = TS)
                /\ (old.quadrant # "staging" /\ new.quadrant = "staging") =>
                       (new.is_staged /\ new.staged_at = TS /\ new.organized_at = NULL)]_vars
    /\ [](\A t \in DOMAIN tasks : ~(tasks[t].staged_at = TS /\ tasks[t].organized_at = TS))

\* ---------------------------------------------------------------- C9
\* C9: a compaction of a (user, quadrant) partition of n tasks, whatever
\* gaps and duplicate positions it starts from, leaves the positions of the
\* partition exactly {0..n-1}, keeps the relative order of any two of its
\* tasks that had different positions, and changes no task outside it (and
\* nothing but the position inside it).
C9_CompactGivesZeroToN ==
    [][Ran("_compact_positions_in_quadrant") =>
          LET P == Partition(tasks, last'.user, last'.quadrant)
          IN /\ DOMAIN tasks' = DOMAIN tasks
             /\ {tasks'[t].position : t \in P} = 0..(Cardinality(P) - 1)
             /\ \A a \in P, b \in P :
                   tasks[a].position < tasks[b].position
                       => tasks'[a].position < tasks'[b].position
             /\ \A t \in P : tasks'[t] = [tasks[t] EXCEPT !.position = tasks'[t].position]
             /\ \A t \in DOMAIN tasks \ P : tasks'[t] = tasks[t]]_vars

\* C9 witness: a compaction of three tasks that read a position above 2 (a
\* gap or a tie with a gap), done
C9_Witness ==
    /\ last.op = "_compact_positions_in_quadrant"
    /\ last.position = 3
    /\ Cardinality(Partition(tasks, last.user, last.quadrant)) = 3
    /\ {tasks[t].position : t \in Partition(tasks, last.user, last.quadrant)} = 0..2

\* ---------------------------------------------------------------- C10
\* C10: after a successful move_task whose source quadrant differs from its
\* target, the m tasks left in the source partition have positions exactly
\* {0..m-1} and any two of them that had different positions keep their order.
C10_SourceCompactedAfterMove ==
    [][(/\ Ran("move_task")
        /\ last'.result = OK
        /\ last'.src # last'.quadrant) =>
          LET P == Partition(tasks', last'.user, last'.src)
          IN /\ P = Partition(tasks, last'.user, last'.src) \ {last'.task_id}
             /\ {tasks'[t].position : t \in P} = 0..(Cardinality(P) - 1)
             /\ \A a \in P, b \in P :
                   tasks[a].position < tasks[b].position
                       => tasks'[a].position < tasks'[b].position]_vars

\* C10 witness: row 1 moved from Q1 to Q2 as the first request, leaving rows 2
\* and 3 in Q1 at positions 0 and 1
C10_Witness ==
    /\ last.op = "move_task"
    /\ last.result = OK
    /\ last.src = "Q1"
    /\ last.quadrant = "Q2"
    /\ last.task_id = 1
    /\ Partition(tasks, "u1", "Q1") = {2, 3}
    /\ tasks[2].position = 0
    /\ tasks[3].position = 1
    /\ budget = 0

\* ---------------------------------------------------------------- C11
\* C11: after a successful move_task of task t to (Q, p), in the same quadrant
\* or across quadrants, t is at position p, every other task of the caller in
\* Q that was at p or above is one higher, every other task of Q below p is
\* where it was, and a same-quadrant move leaves Q with as many tasks as before.
C11_InsertAndShift ==
    [][(Ran("move_task") /\ last'.result = OK) =>
          LET t == last'.task_id
              Q == last'.quadrant
              p == last'.position
              others == Partition(tasks, last'.user, Q) \ {t}
          IN /\ tasks'[t].position = p
             /\ tasks'[t].quadrant = Q
             /\ Partition(tasks', last'.user, Q) = others \cup {t}
             /\ \A x \in others :
                   tasks'[x].position = IF tasks[x].position >= p
                                        THEN tasks[x].position + 1
                                        ELSE tasks[x].position
             /\ last'.src = Q =>
                   Cardinality(Partition(tasks', last'.user, Q))
                       = Cardinality(Partition(tasks, last'.user, Q))]_vars

\* C11 witness: a move inside Q1 to position 1, after which one task of Q1 is
\* below it at 0 and one is beyond every position a start holds (shifted)
C11_Witness ==
    /\ last.op = "move_task"
    /\ last.result = OK
    /\ last.src = "Q1"
    /\ last.quadrant = "Q1"
    /\ last.position = 1
    /\ tasks[last.task_id].position = 1
    /\ \E x \in Partition(tasks, "u1", "Q1") : tasks[x].position = 0
    /\ \E x \in Partition(tasks, "u1", "Q1") : tasks[x].position = MaxGapPos + 1

\* ---------------------------------------------------------------- C12
\* the tasks of user u in quadrant q are at pairwise different positions
DistinctPositions(T, u, q) ==
    \A a \in Partition(T, u, q), b \in Partition(T, u, q) :
        a # b => T[a].position # T[b].position

\* C12: a successful move_task into a quadrant whose tasks were at pairwise
\* different positions leaves the tasks of that quadrant, the moved one
\* included, at pairwise different positions.
C12_MoveMakesNoDuplicate ==
    [][(/\ Ran("move_task")
        /\ last'.result = OK
        /\ DistinctPositions(tasks, last'.user, last'.quadrant))
       => DistinctPositions(tasks', last'.user, last'.quadrant)]_vars

\* C12 witness: a task moved from Q1 to position 1 of Q2, between a task at 0
\* and a task shifted beyond every position a start holds
C12_Witness ==
    /\ last.op = "move_task"
    /\ last.result = OK
    /\ last.src = "Q1"
    /\ last.quadrant = "Q2"
    /\ last.position = 1
    /\ Cardinality(Partition(tasks, "u1", "Q2")) = 3
    /\ {tasks[x].position : x \in Partition(tasks, "u1", "Q2")} = {0, 1, MaxGapPos + 1}

\* ---------------------------------------------------------------- C13
\* C13: in every state reached from the empty store by create_task,
\* move_task, update_task (of quadrant or position too), toggle and
\* delete_task, no two tasks of one user in one quadrant are at the same
\* position.
C13_PositionsUniqueInQuadrant ==
    \A u \in Users, q \in TaskQuadrant : DistinctPositions(tasks, u, q)

TaskRequestOffOwnRows ==
    /\ \/ Ran("get_task_by_id") \/ Ran("update_task") \/ Ran("delete_task")
       \/ Ran("toggle_task_completion") \/ Ran("move_task")
    /\ \/ last'.task_id \notin DOMAIN tasks
       \/ tasks[last'.task_id].user_id # last'.user

\* a get or delete of a goal whose id names no row of the caller
GoalRequestOffOwnRows ==
    /\ Ran("get_goal_by_id") \/ Ran("delete_goal")
    /\ \/ last'.goal_id \notin DOMAIN goals
       \/ goals[last'.goal_id].user_id # last'.user

\* C15: get, update, delete, toggle and move of a task, and get and delete of
\* a goal, whose id does not exist or names a row of another user fail with
\* NotFound (404) and change no row of the store.
C15_NotFoundChangesNothing ==
    [][/\ TaskRequestOffOwnRows => last'.result = TaskNotFound
       /\ GoalRequestOffOwnRows => last'.result = GoalNotFound
       /\ (TaskRequestOffOwnRows \/ GoalRequestOffOwnRows) =>
             /\ status_code(last'.result) = 404
             /\ tasks' = tasks
             /\ subtasks' = subtasks
             /\ goals' = goals]_vars

\* C15 witness: u2 asked to move task 1, a row of u1, and got NotFound
C15_Witness ==
    /\ last.op = "move_task"
    /\ last.user = "u2"
    /\ last.task_id = 1
    /\ last.result = TaskNotFound
    /\ tasks[1].user_id = "u1"
    /\ tasks[1].quadrant = "Q1"

\* ---------------------------------------------------------------- C16
\* C16: update_goal changes a goal only when the goal is a row of the caller
\* (the user of the bearer token): for a goal of another user the caller gets
\* NotFound and the goal is unchanged, whatever user_id the body carries.
C16_UpdateGoalOnlyForOwner ==
    [][(/\ Ran("update_goal")
        /\ last'.goal_id \in DOMAIN goals
        /\ goals[last'.goal_id].user_id # last'.user)
       => /\ last'.result = GoalNotFound
          /\ goals' = goals]_vars

\* ---------------------------------------------------------------- C17
\* a create_task, or an update_task of a task of the caller, that carries a
\* goal_id naming no goal of the caller
CarriesForeignGoal ==
    /\ \/ Ran("create_task")
       \/ /\ Ran("update_task")
          /\ "goal_id" \in last'.sent
          /\ last'.task_id \in DOMAIN tasks
          /\ tasks[last'.task_id].user_id = last'.user
    /\ last'.goal_id # NULL
    /\ \/ last'.goal_id \notin DOMAIN goals
       \/ goals[last'.goal_id].user_id # last'.user

\* C17: a create_task or update_task with a goal_id that does not exist or
\* names a goal of another user fails with the NotFound error of the goal,
\* and writes no task row (create) or leaves the task as it was (update).
C17_GoalNotFoundSurfaced ==
    [][CarriesForeignGoal =>
          /\ last'.result = GoalNotFound
          /\ tasks' = tasks
          /\ subtasks' = subtasks]_vars

\* ---------------------------------------------------------------- C18
\* C18: a create_task of a user who owns 1000 tasks, completed or not, is
\* rejected and writes no row; and in every reachable state a user owns at
\* most 1000 tasks.
C18_TaskCeiling ==
    /\ [](\A u \in Users : _count_user_tasks(tasks, u) <= MaxUserTasks)
    /\ [][(/\ Ran("create_task")
           /\ Cardinality({t \in DOMAIN tasks : tasks[t].user_id = last'.user})
                  >= MaxUserTasks)
          => /\ last'.result = TooManyTasks
             /\ tasks' = tasks
             /\ subtasks' = subtasks]_vars

\* C18 witness: a create into Q1 refused at 1000 tasks, one of them completed
C18_Witness ==
    /\ last.op = "create_task"
    /\ last.quadrant = "Q1"
    /\ last.result = TooManyTasks
    /\ Cardinality(DOMAIN tasks) = MaxUserTasks
    /\ \E t \in DOMAIN tasks : tasks[t].completed
    /\ subtasks = {}

\* ---------------------------------------------------------------- C19
\* C19: in every state reachable by create_goal, update_goal (of the archived
\* flag too) and delete_goal, a user has at most 100 goals with archived =
\* false.
C19_AtMostHundredActiveGoals ==
    \A u \in Users : _count_user_goals(goals, u) <= MaxActiveGoals

\* ---------------------------------------------------------------- C20
\* C20: a successful delete_goal keeps the goal's row and sets its archived
\* flag, deletes no task, takes the goal reference off exactly the caller's
\* tasks that referred to the goal, changes no other field of those tasks and
\* no other task.
C20_DeleteGoalFrame ==
    [][(Ran("delete_goal") /\ last'.result = OK) =>
          LET g == last'.goal_id
              u == last'.user
          IN /\ DOMAIN goals' = DOMAIN goals
             /\ goals'[g] = [goals[g] EXCEPT !.archived = TRUE]
             /\ \A x \in DOMAIN goals \ {g} : goals'[x] = goals[x]
             /\ DOMAIN tasks' = DOMAIN tasks
             /\ \A t \in DOMAIN tasks :
                   tasks'[t] = IF tasks[t].goal_id = g /\ tasks[t].user_id = u
                               THEN [tasks[t] EXCEPT !.goal_id = NULL]
                               ELSE tasks[t]
             /\ subtasks' = subtasks]_vars

\* C20 witness: u1 deleted goal g1: task 1 lost its reference, task 2 still
\* refers to g3 and task 3 of u2 to g2
C20_Witness ==
    /\ last.op = "delete_goal"
    /\ last.result = OK
    /\ last.goal_id = "g1"
    /\ goals["g1"].archived
    /\ tasks[1].goal_id = NULL
    /\ tasks[2].goal_id = "g3"
    /\ tasks[3].goal_id = "g2"

\* ---------------------------------------------------------------- C21
\* C21: a move_task that reached its write of the task's row, and a
\* delete_goal that reached its write of archived, return success and leave
\* that write in the store when a later best-effort step (the compaction of
\* the source quadrant, the shift of the target quadrant, the clean-up of the
\* tasks' goal reference) fails.
C21_BestEffortFailureKeepsPrimaryWrite ==
    [][/\ (/\ Ran("move_task")
           /\ last'.failed # {}
           /\ last'.task_id \in DOMAIN tasks)
          => /\ last'.result = OK
             /\ tasks'[last'.task_id]
                  = MovedRow(tasks[last'.task_id], last'.quadrant, last'.position, NULL)
       /\ (Ran("delete_goal") /\ last'.failed # {})
          => /\ last'.result = OK
             /\ goals'[last'.goal_id] = [goals[last'.goal_id] EXCEPT !.archived = TRUE]]_vars

\* C21 witness: task 1 moved from Q1 to position 0 of Q2 while both later
\* steps failed at their first store call: the move is there, task 2 is left
\* alone in Q1 at position 1 and task 4 shares position 0 of Q2
C21_Witness ==
    /\ last.op = "move_task"
    /\ last.result = OK
    /\ last.failed = {"compact", "reorder"}
    /\ last.task_id = 1
    /\ tasks[1].quadrant = "Q2"
    /\ tasks[1].position = 0
    /\ tasks[2].quadrant = "Q1"
    /\ tasks[2].position = 1
    /\ tasks[4].quadrant = "Q2"
    /\ tasks[4].position = 0

\* ---------------------------------------------------------------- C22
\* C22: when the score aggregate gives no row (a user with no goals),
\* calculate_productivity_score returns overall_score 0, the five component
\* scores 0, trend "stable" and recommendations holding the "Create your
\* first goal" message.
C22_ScoreOfUserWithoutGoals ==
    (last.op = "calculate_productivity_score" /\ last.answer = NoRows) =>
        /\ last.result = OK
        /\ last.report.overall_score = 0
        /\ last.report.goal_completion_score = 0
        /\ last.report.task_completion_score = 0
        /\ last.report.quadrant_balance_score = 0
        /\ last.report.consistency_score = 0
        /\ last.report.staging_efficiency_score = 0
        /\ last.report.score_trend = "stable"
        /\ \E i \in DOMAIN last.report.recommendations :
              last.report.recommendations[i]
                  = "Create your first goal to start tracking productivity"

\* C22 witness: the score asked for while the aggregate gave no row
C22_Witness ==
    /\ last.op = "calculate_productivity_score"
    /\ last.answer = NoRows
    /\ last.result = OK
    /\ Len(last.report.recommendations) = 1

\* ---------------------------------------------------------------- C23
\* C23: calculate_productivity_score and get_productivity_insights return a
\* report, never an error, also when a store call for the score, the trends
\* or the velocity raises.
C23_ReportWhateverTheAggregates ==
    last.op \in {"calculate_productivity_score", "get_productivity_insights"} =>
        last.result = OK

\* ---------------------------------------------------------------- C24
\* the messages of the rules that trigger on distribution d (strict comparisons)
TriggeredAdvice(d) ==
    (IF d.q1_percentage > 30 THEN {Q1Advice} ELSE {})
    \cup (IF d.q2_percentage < 40 THEN {Q2Advice} ELSE {})
    \cup (IF d.q3_percentage > 25 THEN {Q3Advice} ELSE {})
    \cup (IF d.q4_percentage > 10 THEN {Q4Advice} ELSE {})
    \cup (IF d.staging_percentage > 20 THEN {StagingAdvice} ELSE {})

\* C24: the recommendations of get_quadrant_analysis are, once each, the
\* messages of the rules that trigger (Q1 > 30, Q2 < 40, Q3 > 25, Q4 > 10,
\* staging > 20), or the affirmation alone when none triggers; the list is
\* never empty, and shares that are all 0 give the Q2 message and no
\* affirmation.
C24_OneAdvicePerTriggeredRule ==
    (last.op = "get_quadrant_analysis" /\ last.result = OK) =>
        LET d == last.report.distribution
            recs == last.report.recommendations
            given == {recs[i] : i \in DOMAIN recs}
        IN /\ recs # << >>
           /\ Len(recs) = Cardinality(given)
           /\ given = IF TriggeredAdvice(d) = {} THEN {Affirmation} ELSE TriggeredAdvice(d)
           /\ (/\ d.q1_percentage = 0 /\ d.q2_percentage = 0 /\ d.q3_percentage = 0
               /\ d.q4_percentage = 0 /\ d.staging_percentage = 0)
              => (Q2Advice \in given /\ Affirmation \notin given)

\* C24 witness: shares of 30, 40, 0, 10 and 20, each rule at its threshold,
\* answered with the affirmation alone
C24_Witness ==
    /\ last.op = "get_quadrant_analysis"
    /\ last.result = OK
    /\ last.report.distribution.q1_percentage = 30
    /\ last.report.distribution.q2_percentage = 40
    /\ last.report.distribution.q4_percentage = 10
    /\ last.report.distribution.staging_percentage = 20
    /\ last.report.recommendations = <<Affirmation>>

\* ---------------------------------------------------------------- C25
\* a successful toggle_task_completion
Toggled == Ran("toggle_task_completion") /\ last'.result = OK

\* C25: a successful toggle_task_completion flips completed and changes
\* nothing else of the task but completed_at (quadrant, position and
\* is_staged stay), and no other task; in every reachable state a task has
\* completed_at set exactly when it is completed; and a second toggle right
\* after a toggle of the same task gives back the completed the first found.
C25_ToggleFlipsCompleted ==
    /\ [](\A t \in DOMAIN tasks : (tasks[t].completed_at # NULL) <=> tasks[t].completed)
    /\ [][Toggled =>
             LET t == last'.task_id
             IN /\ tasks'[t].completed = ~tasks[t].completed
                /\ tasks' = [tasks EXCEPT ![t] = [@ EXCEPT !.completed = tasks'[t].completed,
                                                           !.completed_at = tasks'[t].completed_at]]
                /\ subtasks' = subtasks]_vars
    /\ [][(/\ Toggled
           /\ last.op = "toggle_task_completion"
           /\ last.result = OK
           /\ last.task_id = last'.task_id
           /\ last.user = last'.user)
          => tasks'[last'.task_id].completed = last.was_completed]_vars

\* C25 witness: a task toggled back from completed: not completed, completed_at
\* cleared, where create_task put it
C25_Witness ==
    /\ last.op = "toggle_task_completion"
    /\ last.result = OK
    /\ last.was_completed
    /\ ~tasks[last.task_id].completed
    /\ tasks[last.task_id].completed_at = NULL
    /\ tasks[last.task_id].quadrant = "staging"
    /\ tasks[last.task_id].is_staged

\* ---------------------------------------------------------------- C26
\* the rows of user u
OwnRows(T, u) == [t \in {x \in DOMAIN T : T[x].user_id = u} |-> T[t]]

\* what the task request req (a create, a move, a toggle, a delete, or an
\* update of quadrant, position or goal_id) may do on store T
Replayed(T, S, G, req) ==
    CASE req.op = "create_task" ->
           {create_task(T, S, G, req.user, req.task_id, req.quadrant, req.goal_id, 0)}
      [] req.op = "update_task" ->
           {update_task(T, S, G, req.user, req.task_id,
                        TaskUpdate(req.sent, req.quadrant, req.position, FALSE, req.goal_id, 0))}
      [] req.op = "toggle_task_completion" ->
           {toggle_task_completion(T, S, req.user, req.task_id)}
      [] req.op = "delete_task" -> {delete_task(T, S, req.user, req.task_id)}
      [] req.op = "move_task" ->
           {move_task(T, S, req.user, req.task_id, req.quadrant, req.position,
                      req.is_staged, rows) :
               rows \in MoveRows(T, req.user, req.task_id, req.quadrant, req.position,
                                 req.is_staged)}

\* C26: a task request of user A (create, move with its shift and compaction,
\* update, toggle, delete) changes no task of another user, and what it
\* answers and does to A's tasks is what it would on a store holding A's
\* tasks alone: another user's staging tasks do not count against A's cap.
C26_OtherUsersRowsApart ==
    [][(\/ Ran("create_task") \/ Ran("move_task") \/ Ran("update_task")
        \/ Ran("toggle_task_completion") \/ Ran("delete_task")) =>
          /\ \A t \in DOMAIN tasks :
                tasks[t].user_id # last'.user => (t \in DOMAIN tasks' /\ tasks'[t] = tasks[t])
          /\ \E o \in Replayed(OwnRows(tasks, last'.user), subtasks, goals, last') :
                /\ last'.result = o.result
                /\ OwnRows(tasks', last'.user) = o.tasks]_vars

\* C26 witness: u1, with 4 tasks in staging while u2 has 2 there, created a
\* fifth; the tasks of u2 in staging and in Q1 are at their positions
C26_Witness ==
    /\ last.op = "create_task"
    /\ last.user = "u1"
    /\ last.quadrant = "staging"
    /\ last.before = StagingCap - 1
    /\ last.result = OK
    /\ _count_staging_tasks(tasks, "u1") = StagingCap
    /\ tasks[11].quadrant = "staging" /\ tasks[11].position = 0
    /\ tasks[12].quadrant = "staging" /\ tasks[12].position = 1
    /\ tasks[13].quadrant = "Q1" /\ tasks[13].position = 0

C29_SameQuadrantMoveStaysDense ==
    [][(/\ Ran("move_task")
        /\ last'.result = OK
        /\ last'.src = last'.quadrant
        /\ LET P == Partition(tasks, last'.user, last'.quadrant)
           IN /\ {tasks[t].position : t \in P} = 0..(Cardinality(P) - 1)
              /\ DistinctPositions(tasks, last'.user, last'.quadrant)
              /\ last'.position < Cardinality(P))
       => LET P == Partition(tasks', last'.user, last'.quadrant)
          IN {tasks'[t].position : t \in P} = 0..(Cardinality(P) - 1)]_vars

\* ---------------------------------------------------------------- C27
\* C27: two move_task requests of one user whose store calls interleave can
\* leave a quadrant with duplicate or skipped positions; whatever the
\* positions a quadrant's n rows hold, a later run of the compaction on it
\* that no other request interleaves with and that does not fail (on its
\* own, or as the compaction of the source of a move_task to another
\* quadrant) leaves them with the positions 0..n-1.
C27_CompactionHealsRacedPositions ==
    [][\A q \in SpecQuadrants :
          (\/ Ran("_compact_positions_in_quadrant") /\ last'.quadrant = q
           \/ /\ Ran("move_task")
              /\ last'.result = OK
              /\ last'.src = q
              /\ last'.quadrant # q) =>
             LET P == Partition(tasks', "u1", q)
             IN {tasks'[t].position : t \in P} = 0..(Cardinality(P) - 1)]_vars

\* both move_task requests overlapped and are over; the compaction of Q2 then
\* read three rows whose highest position was not 2, and left them at 0..2
C27_Witness ==
    /\ \A i \in Slots : /\ inflight[i].op = "move_task"
                        /\ inflight[i].quadrant = "Q2"
                        /\ inflight[i].result = OK
                        /\ inflight[i].overlapped
    /\ last.op = "_compact_positions_in_quadrant"
    /\ last.quadrant = "Q2"
    /\ last.position # 2
    /\ Partition(tasks, "u1", "Q2") = {1, 2, 4}
    /\ {tasks[t].position : t \in {1, 2, 4}} = 0..2

\* ---------------------------------------------------------------- C30
\* C30: also when two requests of one user that each put a task into
\* staging interleave their count and their write, the user has at most 5
\* non-completed tasks in staging.
C30_CapUnderInterleaving ==
    _count_staging_tasks(tasks, "u1") <= StagingCap

====
